---- MODULE Spec2Model ----
(***************************************************************************)
(* Tower-defense simulation engine (backend/internal/game): one Game       *)
(* instance with its World, the six-system pipeline run by Update, the     *)
(* commands AddTower, Reset, GetState/SaveState, LoadFromState, Start and   *)
(* Stop, the tick loop Start launches, and the Manager's registry of       *)
(* instances.                                                               *)
(*                                                                         *)
(* Modelling conventions                                                   *)
(*  - float64 coordinates are integers; the path is axis-aligned, so every  *)
(*    enemy position is exact.  Distances are compared on their squares,    *)
(*    which is exact for the non-negative quantities the code compares.     *)
(*  - dt is counted in 1/60 s frames (the code multiplies dt by 60).        *)
(*  - wall-clock timers (time.Now) are abstracted to "has it expired"       *)
(*    booleans that the actions WaveTimerExpires, SpawnTimerExpires and     *)
(*    CooldownExpires set.                                                  *)
(*  - uuid.New() is a fresh identifier: the kind of the entity it is made   *)
(*    for and the least number no identifier held anywhere carries.         *)
(*  - Go map iteration order is a nondeterministic choice.                  *)
(*  - g.mu is held for the whole of Update: pc # 0 means the lock is held   *)
(*    by a tick in progress, and every command waits for pc = 0.            *)
(*  - SaveState changes nothing; the bytes LoadFromState is given are the   *)
(*    snapshot of the current state, the snapshot of a new game, or bytes   *)
(*    that do not decode.                                                   *)
(*  - Start releases g.mu before it makes the ticker and the goroutine;     *)
(*    each goroutine reads running under the read lock, releases it, and    *)
(*    only then calls Update.  A stopped ticker may still hold one tick.    *)
(*  - the Manager's callers are threads that take m.mu and then, where the  *)
(*    code does, the g.mu of an instance; an instance there is its running  *)
(*    flag.                                                                 *)
(*  - a function tried on its own leaves its argument and its result in    *)
(*    the variable pure.                                                    *)
(*                                                                         *)
(* Specifications                                                          *)
(*  - Spec:        ticks with waves, combat and rewards, one firing spot.   *)
(*  - SpecPlace:   every AddTower input, on a game that ticks.              *)
(*  - SpecPersist: SaveState and LoadFromState, with Start and Reset.       *)
(*  - SpecCalls:   AddTower calls issued together, interleaved with ticks.  *)
(*  - SpecRead:    GetState beside ticks and commands.                      *)
(*  - SpecLoop:    Start, Stop and the tick loops they leave behind.        *)
(*  - SpecOver:    a game played to its end, then stopped, reset or loaded. *)
(*  - SpecManager: every Manager operation, from concurrent callers.        *)
(*  - SpecDefault: GetOrCreateDefault beside the other lookups.             *)
(*  - SpecWorld:   a World driven through its own operations.               *)
(*  - SpecFactory: CreateEnemiesForWave on every composition.               *)
(*  - SpecHit:     a projectile that hits, with every damage and radius.    *)
(*  - SpecMove:    the movement of single enemies, and waves without towers.*)
(*  - SpecGap:     waves whose construction succeeds or fails.              *)
(*  - SpecTicking: Spec without Reset, with fair ticks and a fair clock.    *)
(***************************************************************************)
EXTENDS Integers, Sequences, FiniteSets, TLC

VARIABLES
    towers,          \* World.towers:      id -> TowerEntity
    enemies,         \* World.enemies:     id -> EnemyEntity
    projectiles,     \* World.projectiles: id -> ProjectileEntity
    state,           \* Game.state (GameState)
    running,         \* Game.running
    pc,              \* 0: g.mu free; k in 1..6: Update holds g.mu, system k runs next
    dt,              \* dt of the tick in progress, in frames
    currentWave,     \* WaveSystem.currentWave
    remainingInWave, \* WaveSystem.remainingInWave
    waveDue,         \* now.Sub(lastWaveTime) > waveInterval
    spawnDue,        \* now.After(nextEnemySpawn)
    ran,             \* observation: systems run so far by the tick in progress
    slain,           \* observation: enemies whose hp reached 0 by damage in the tick in progress
    calls,           \* clients: the AddTower calls issued together, number -> request
    returned,        \* clients: what the calls that have returned have returned
    before,          \* clients: the towers and the gold when the calls were issued
    snap,            \* reader: the snapshot a GetState call in progress has built
    tickers,         \* the tickers Start has made: number -> "live", "buffered", "dead"
    gticker,         \* Game.ticker: the number of a ticker, or NoTicker
    loops,           \* the tick-loop goroutines: number -> [at, ticker]
    starting,        \* Start calls that have released g.mu and not yet made their ticker
    launched,        \* goroutines of Start that have not yet evaluated g.ticker.C
    games,           \* Manager.games: game id -> instance
    inst,            \* the instances NewGame has made: number -> [id, running]
    mmu,             \* Manager.mu: [w, r], the holders of the write lock and of read locks
    gmu,             \* Game.mu of each instance: number -> [w, r]
    th,              \* the manager's callers: thread -> [op, at, id, g, left, out]
    idx,             \* a World driven through its own operations: [entities, tower, enemy, projectile]
    pure             \* a function called on its own: [fn, arg, out] of the last call

vars == <<towers, enemies, projectiles, state, running, pc, dt, currentWave,
          remainingInWave, waveDue, spawnDue, ran, slain, calls, returned, before,
          snap, tickers, gticker, loops, starting, launched, games, inst, mmu,
          gmu, th, idx, pure>>

world == <<towers, enemies, projectiles>>
waveSys == <<currentWave, remainingInWave, waveDue, spawnDue>>
observed == <<ran, slain>>
clients == <<calls, returned, before>>
readers == <<snap>>
loopv == <<tickers, gticker, loops, starting, launched>>
mgr == <<games, inst, mmu, gmu, th>>
apart == <<idx, pure>>
beside == <<readers, mgr, apart>>
aside == <<beside, loopv>>
game == <<world, state, running, pc, dt, waveSys, observed>>
single == <<game, clients, readers, loopv, apart>>

----------------------------------------------------------------------------
(* Bounds of the model *)

MaxWave == 2           \* waves started between two resets
MaxEnemies == 2        \* enemies in the World when a spawn timer expires
MaxCalls == 3          \* AddTower calls issued together
MaxProjectiles == 1    \* projectiles in flight or about to be fired when a cooldown expires
MaxLoops == 2          \* Start calls and tick-loop goroutines alive when Start marks the game running
MaxGames == 2          \* instances the manager has made
MaxThreads == 2        \* callers of the manager at a time
MaxIds == 2            \* identifiers the entities given to a World carry
MaxCount == 2          \* enemies of one kind in a composition, besides the 7 and 3 of the example
MaxDamage == 4         \* damage of a projectile tried on its own
MaxRadius == 2         \* splash radius of a projectile tried on its own

(* The clamp of Update, 0.05 s, in frames: 0.05 * 60 *)
MaxDtFrames == 3

----------------------------------------------------------------------------
(* Configuration (config.GameConfig), a small instance of balance.yaml *)

Pos(x, y) == [x |-> x, y |-> y]

cfg ==
    [ Game |-> [StartingGold |-> 100, StartingLives |-> 2],
      Towers |->
        [ basic  |-> [Cost |-> 50, Range |-> 4, Damage |-> 2, FireRate |-> 1,
                      SplashRadius |-> 0],
          splash |-> [Cost |-> 60, Range |-> 4, Damage |-> 2, FireRate |-> 1,
                      SplashRadius |-> 2],
          sniper |-> [Cost |-> 20, Range |-> 4, Damage |-> 2, FireRate |-> 1,
                      SplashRadius |-> 0] ],
      Enemies |->
        [ basic |-> [HP |-> 2, Speed |-> 1, GoldReward |-> 10, ScoreReward |-> 10],
          fast  |-> [HP |-> 1, Speed |-> 2, GoldReward |-> 15, ScoreReward |-> 15] ],
      Projectiles |-> [basic |-> [Speed |-> 2], splash |-> [Speed |-> 2],
                       sniper |-> [Speed |-> 2]],
      Waves |->
        [ HPScaleNum |-> 3, HPScaleDen |-> 2,
          EarlyWaves |-> [Basic |-> 1, Fast |-> 1, Tank |-> 0, Boss |-> 0],
          MidWaves   |-> [Basic |-> 1, Fast |-> 1, Tank |-> 0, Boss |-> 0],
          LateWaves  |-> [Basic |-> 1, Fast |-> 1, Tank |-> 0, Boss |-> 0],
          BossWaves  |-> [Basic |-> 1, Fast |-> 0, Tank |-> 0, Boss |-> 0] ],
      Map |-> [Path |-> <<Pos(0, 0), Pos(2, 0), Pos(2, 1)>>],
      Placement |-> [MinDistanceFromPath |-> 3, MinTowerSpacing |-> 2,
                     MaxTowers |-> 2] ]

(* Inputs the commands are tried with *)
TowerTypes == {"basic", "splash", "sniper", "laser"}
Spots == {Pos(5, 0), Pos(5, 3), Pos(2, 3), Pos(0, 1)}
DtFrames == {1, MaxDtFrames}
CallTypes == {"sniper", "splash"}
CallSpots == {Pos(5, 0), Pos(5, 3), Pos(8, 0)}

ErrNotEnoughGold == "not enough gold"
ErrInvalidPlacement == "invalid tower placement"
ErrUnknownTower == "unknown tower type"
Ok == "nil"

----------------------------------------------------------------------------
(* Arithmetic helpers *)

Min(a, b) == IF a < b THEN a ELSE b

DistSq(a, b) == (a.x - b.x) * (a.x - b.x) + (a.y - b.y) * (a.y - b.y)

(* math.Sqrt, rounded down to the integer grid *)
Sqrt(n) == CHOOSE r \in 0..n : r * r <= n /\ (r + 1) * (r + 1) > n

(* Go slices are 0-based *)
PathLen == Len(cfg.Map.Path)
PathAt(i) == cfg.Map.Path[i + 1]

----------------------------------------------------------------------------
(* config: lookups *)

HasTowerConfig(towerType) == towerType \in DOMAIN cfg.Towers
GetTowerConfig(towerType) == cfg.Towers[towerType]
HasEnemyConfig(enemyType) == enemyType \in DOMAIN cfg.Enemies
GetEnemyConfig(enemyType) == cfg.Enemies[enemyType]
HasProjectileConfig(projType) == projType \in DOMAIN cfg.Projectiles
GetProjectileConfig(projType) == cfg.Projectiles[projType]

GetWaveComposition(wave) ==
    IF wave % 10 = 0 THEN cfg.Waves.BossWaves
    ELSE IF wave <= 5 THEN cfg.Waves.EarlyWaves
    ELSE IF wave <= 10 THEN cfg.Waves.MidWaves
    ELSE cfg.Waves.LateWaves

(* int(float64(baseHP) * (1 + float64(wave-1) * (scale-1))), scale = Num/Den *)
ScaleEnemyHP(baseHP, wave) ==
    IF wave <= 1 THEN baseHP
    ELSE (baseHP * (cfg.Waves.HPScaleDen
                    + (wave - 1) * (cfg.Waves.HPScaleNum - cfg.Waves.HPScaleDen)))
         \div cfg.Waves.HPScaleDen

----------------------------------------------------------------------------
(* ecs: entities, factory, World *)

(* every identifier held somewhere: in the World, as a projectile's target  *)
(* or in the observations                                                    *)
UsedIds ==
    DOMAIN towers \cup DOMAIN enemies \cup DOMAIN projectiles
        \cup {projectiles[p].target : p \in DOMAIN projectiles}
        \cup slain

UsedNums(k) == {id[2] : id \in {u \in UsedIds : u[1] = k}}

(* the r-th fresh identifier of kind k *)
Fresh(k, r) ==
    <<k, CHOOSE n \in 1..(Cardinality(UsedNums(k)) + r) :
            /\ n \notin UsedNums(k)
            /\ Cardinality({m \in 1..n : m \notin UsedNums(k)}) = r>>

(* an identifier source that repeats itself *)
SameId(k) == <<k, 1>>

(* uuid.New().String() for an entity of kind k *)
NewId(k) == Fresh(k, 1)

(* a map with one more entry, as w.towers[id] = e *)
Put(m, id, e) == [k \in DOMAIN m \cup {id} |-> IF k = id THEN e ELSE m[k]]

Empty == [k \in {} |-> 0]

(* EntityFactory.CreateTower: LastShot an hour ago, so the tower can shoot *)
CreateTower(towerType, pos) ==
    [ towerType |-> towerType, pos |-> pos,
      range |-> GetTowerConfig(towerType).Range,
      damage |-> GetTowerConfig(towerType).Damage,
      fireRate |-> GetTowerConfig(towerType).FireRate,
      splashRadius |-> GetTowerConfig(towerType).SplashRadius,
      alive |-> TRUE, canShoot |-> TRUE ]

CreateEnemy(enemyType, pos, wave) ==
    [ enemyType |-> enemyType, pos |-> pos,
      hp |-> ScaleEnemyHP(GetEnemyConfig(enemyType).HP, wave),
      maxHp |-> ScaleEnemyHP(GetEnemyConfig(enemyType).HP, wave),
      speed |-> GetEnemyConfig(enemyType).Speed,
      pathIndex |-> 0,
      goldReward |-> GetEnemyConfig(enemyType).GoldReward,
      scoreReward |-> GetEnemyConfig(enemyType).ScoreReward,
      alive |-> TRUE ]

CreateProjectile(projType, pos, targetID, damage, splashRadius) ==
    [ projectileType |-> projType, pos |-> pos, target |-> targetID,
      speed |-> GetProjectileConfig(projType).Speed,
      damage |-> damage, splashRadius |-> splashRadius, alive |-> TRUE ]

(* a TakeDamage that does not stop at zero *)
TakeDamageBelowZero(e, damage) ==
    IF e.hp - damage <= 0
    THEN [e EXCEPT !.hp = e.hp - damage, !.alive = FALSE]
    ELSE [e EXCEPT !.hp = e.hp - damage]

(* EnemyEntity.TakeDamage *)
TakeDamage(e, damage) ==
    IF e.hp - damage <= 0
    THEN [e EXCEPT !.hp = 0, !.alive = FALSE]
    ELSE [e EXCEPT !.hp = e.hp - damage]

(* World.GetTowers / GetEnemies / GetProjectiles: the alive ones *)
GetAlive(m) == {id \in DOMAIN m : m[id].alive}

(* World.TowerCount *)
TowerCount(ts) == Cardinality({id \in DOMAIN ts : ts[id].alive})

(* a cleanup that removes nothing *)
CleanupNothing(m) == m

(* World.CleanupDeadEntities, on one typed index *)
CleanupDead(m) == [id \in GetAlive(m) |-> m[id]]

----------------------------------------------------------------------------
(* game: tower placement *)

(* distanceToSegment returns px*px + py*py to the nearest point of the       *)
(* segment; the nearest point is rational, so the value is num / den.        *)
distanceToSegment(p, a, b) ==
    LET dx == b.x - a.x
        dy == b.y - a.y
        dot == (p.x - a.x) * dx + (p.y - a.y) * dy
        len2 == dx * dx + dy * dy
    IN  IF dx = 0 /\ dy = 0 THEN [num |-> DistSq(p, a), den |-> 1]
        ELSE IF dot < 0 THEN [num |-> DistSq(p, a), den |-> 1]
        ELSE IF dot > len2 THEN [num |-> DistSq(p, b), den |-> 1]
        ELSE [num |-> DistSq(p, a) * len2 - dot * dot, den |-> len2]

(* the path check of isValidPlacement: dist < minDistFromPath on a segment *)
TooCloseToPath(pos) ==
    \E i \in 0..(PathLen - 2) :
        LET dist == distanceToSegment(pos, PathAt(i), PathAt(i + 1))
        IN  dist.num < cfg.Placement.MinDistanceFromPath * dist.den

(* the spacing check of isValidPlacement *)
TooCloseToTower(ts, pos) ==
    \E id \in GetAlive(ts) :
        DistSq(pos, ts[id].pos)
            < cfg.Placement.MinTowerSpacing * cfg.Placement.MinTowerSpacing

(* a placement check without the cap on the number of towers *)
isValidPlacementNoCap(ts, pos) ==
    /\ ~TooCloseToPath(pos)
    /\ ~TooCloseToTower(ts, pos)

isValidPlacement(ts, pos) ==
    /\ ~(TowerCount(ts) >= cfg.Placement.MaxTowers)
    /\ ~TooCloseToPath(pos)
    /\ ~TooCloseToTower(ts, pos)

(* an AddTower that does not compare the gold with the cost *)
AddTowerResultOnCredit(towerType, pos) ==
    IF ~HasTowerConfig(towerType) THEN ErrUnknownTower
    ELSE IF ~isValidPlacement(towers, pos) THEN ErrInvalidPlacement
    ELSE Ok

(* an AddTower that wants more gold than the cost *)
AddTowerResultStrict(towerType, pos) ==
    IF ~HasTowerConfig(towerType) THEN ErrUnknownTower
    ELSE IF state.Gold <= GetTowerConfig(towerType).Cost THEN ErrNotEnoughGold
    ELSE IF ~isValidPlacement(towers, pos) THEN ErrInvalidPlacement
    ELSE Ok

(* what AddTower returns in the current state *)
AddTowerResult(towerType, pos) ==
    IF ~HasTowerConfig(towerType) THEN ErrUnknownTower
    ELSE IF state.Gold < GetTowerConfig(towerType).Cost THEN ErrNotEnoughGold
    ELSE IF ~isValidPlacement(towers, pos) THEN ErrInvalidPlacement
    ELSE Ok

(* an AddTower that takes the gold before it checks the placement *)
AddTowerPayFirst(towerType, pos) ==
    /\ pc = 0
    /\ IF AddTowerResult(towerType, pos) = Ok
       THEN /\ towers' = Put(towers, NewId("tower"), CreateTower(towerType, pos))
            /\ state' = [state EXCEPT !.Gold = @ - GetTowerConfig(towerType).Cost]
       ELSE IF AddTowerResult(towerType, pos) = ErrInvalidPlacement
       THEN /\ state' = [state EXCEPT !.Gold = @ - GetTowerConfig(towerType).Cost]
            /\ UNCHANGED towers
       ELSE UNCHANGED <<towers, state>>
    /\ UNCHANGED <<enemies, projectiles, running, pc, dt, waveSys, observed>>

AddTower(towerType, pos) ==
    /\ pc = 0
    /\ IF AddTowerResult(towerType, pos) = Ok
       THEN /\ towers' = Put(towers, NewId("tower"), CreateTower(towerType, pos))
            /\ state' = [state EXCEPT !.Gold = @ - GetTowerConfig(towerType).Cost]
       ELSE UNCHANGED <<towers, state>>
    /\ UNCHANGED <<enemies, projectiles, running, pc, dt, waveSys, observed>>

----------------------------------------------------------------------------
(* systems: the pipeline *)

(* a registration with the cleanup ahead of the rewards *)
systemsCleanupFirst ==
    <<"wave", "movement", "combat", "projectile", "lifecycle", "reward">>

(* NewGame registers the systems in this order; SystemManager.Update runs   *)
(* them in the order of registration.                                       *)
systems == <<"wave", "movement", "combat", "projectile", "reward", "lifecycle">>

(* system `name` is the one SystemManager.Update runs next *)
Stage(name) == pc \in 1..Len(systems) /\ systems[pc] = name

(* the loop of SystemManager.Update moves on; after the last system Update  *)
(* returns and releases g.mu                                                *)
StageDone ==
    /\ pc' = IF pc = Len(systems) THEN 0 ELSE pc + 1
    /\ dt' = IF pc = Len(systems) THEN 0 ELSE dt
    /\ ran' = Append(ran, systems[pc])
    /\ UNCHANGED <<clients, aside>>

RECURSIVE SumOver(_, _)
SumOver(S, f) ==
    IF S = {} THEN 0
    ELSE LET x == CHOOSE y \in S : TRUE IN f[x] + SumOver(S \ {x}, f)

(* all orders a Go map can be iterated in *)
Orders(S) ==
    {o \in [1..Cardinality(S) -> S] : \A i, j \in 1..Cardinality(S) : o[i] = o[j] => i = j}

(* WaveSystem *)

Rep(enemyType, n) == [i \in 1..n |-> enemyType]

(* EntityFactory.CreateEnemiesForWave: the kinds of the batch, in order; the *)
(* call fails on a kind without configuration or on an empty batch           *)
WaveKinds(wave) ==
    LET c == GetWaveComposition(wave)
    IN  Rep("basic", c.Basic) \o Rep("fast", c.Fast) \o Rep("tank", c.Tank)
            \o Rep("boss", c.Boss)

CreateEnemiesForWaveFails(wave) ==
    \/ \E i \in 1..Len(WaveKinds(wave)) : ~HasEnemyConfig(WaveKinds(wave)[i])
    \/ Len(WaveKinds(wave)) = 0

(* The factory on its own: CreateEnemiesForWave for any composition, with   *)
(* all four kinds configured as in balance.yaml or only those of cfg. The   *)
(* result is the error and the kinds of the enemies, in order.              *)

EnemyKinds == <<"basic", "fast", "tank", "boss">>

ErrUnknownEnemy == "unknown enemy type"
ErrNoEnemies == "no enemies created for wave"

NoCall == [fn |-> "none"]

Counts == 0..MaxCount \cup {3, 7}

Compositions == [Basic : Counts, Fast : 0..MaxCount \cup {3}, Tank : 0..MaxCount,
                 Boss : 0..MaxCount]

KnownKinds == {{"basic", "fast", "tank", "boss"}, DOMAIN cfg.Enemies}

CountOf(comp, kind) ==
    IF kind = "basic" THEN comp.Basic
    ELSE IF kind = "fast" THEN comp.Fast
    ELSE IF kind = "tank" THEN comp.Tank
    ELSE comp.Boss

(* a CreateEnemiesForWave that builds the fast enemies first *)
CreateEnemiesForWaveFastFirst(comp, known) ==
    LET made == Rep("fast", comp.Fast) \o Rep("basic", comp.Basic)
                      \o Rep("tank", comp.Tank) \o Rep("boss", comp.Boss)
    IN  IF \E i \in 1..Len(made) : made[i] \notin known
        THEN [err |-> ErrUnknownEnemy, enemies |-> <<>>]
        ELSE IF Len(made) = 0 THEN [err |-> ErrNoEnemies, enemies |-> <<>>]
        ELSE [err |-> Ok, enemies |-> made]

(* EntityFactory.CreateEnemiesForWave on the composition of the wave *)
CreateEnemiesForWave(comp, known) ==
    LET made == Rep("basic", comp.Basic) \o Rep("fast", comp.Fast)
                      \o Rep("tank", comp.Tank) \o Rep("boss", comp.Boss)
    IN  IF \E i \in 1..Len(made) : made[i] \notin known
        THEN [err |-> ErrUnknownEnemy, enemies |-> <<>>]
        ELSE IF Len(made) = 0 THEN [err |-> ErrNoEnemies, enemies |-> <<>>]
        ELSE [err |-> Ok, enemies |-> made]

(* spawnWave calls the factory *)
CallCreateEnemiesForWave ==
    /\ \E comp \in Compositions, known \in KnownKinds :
          pure' = [fn |-> "CreateEnemiesForWave", arg |-> [comp |-> comp, known |-> known],
                   out |-> CreateEnemiesForWave(comp, known)]
    /\ UNCHANGED <<game, clients, readers, loopv, mgr, idx>>

(* WaveSystem.selectEnemyType for the roll rng.Intn(total) *)
selectEnemyType(comp, roll) ==
    IF roll < comp.Basic THEN "basic"
    ELSE IF roll - comp.Basic < comp.Fast THEN "fast"
    ELSE IF roll - comp.Basic - comp.Fast < comp.Tank THEN "tank"
    ELSE "boss"

Rolls(comp) ==
    LET total == comp.Basic + comp.Fast + comp.Tank + comp.Boss
    IN  IF total = 0 THEN {0} ELSE 0..(total - 1)

startPos == IF PathLen > 0 THEN PathAt(0) ELSE Pos(0, 250)

(* remainingInWave after spawnWave has admitted the first of n enemies:      *)
(* set to n, decremented once, then incremented for each of the other n - 1  *)
RemainingAfterFirst(n) == (n - 1) + (n - 1)

(* a wave start that is due again at once when the construction fails *)
spawnWaveRetriesAtOnce(fails) ==
    /\ currentWave' = currentWave + 1
    /\ waveDue' = fails
    /\ IF fails
       THEN UNCHANGED <<enemies, remainingInWave, spawnDue>>
       ELSE /\ enemies' = Put(enemies, NewId("enemy"),
                              CreateEnemy(WaveKinds(currentWave + 1)[1], startPos,
                                          currentWave + 1))
            /\ remainingInWave' = RemainingAfterFirst(Len(WaveKinds(currentWave + 1)))
            /\ spawnDue' = FALSE

(* WaveSystem.spawnWave followed by s.lastWaveTime = now; fails is whether   *)
(* CreateEnemiesForWave returns an error                                    *)
spawnWaveWith(fails) ==
    /\ currentWave' = currentWave + 1
    /\ waveDue' = FALSE
    /\ IF fails
       THEN UNCHANGED <<enemies, remainingInWave, spawnDue>>
       ELSE /\ enemies' = Put(enemies, NewId("enemy"),
                              CreateEnemy(WaveKinds(currentWave + 1)[1], startPos,
                                          currentWave + 1))
            /\ remainingInWave' = RemainingAfterFirst(Len(WaveKinds(currentWave + 1)))
            /\ spawnDue' = FALSE

(* with the configuration cfg *)
spawnWave == spawnWaveWith(CreateEnemiesForWaveFails(currentWave + 1))

(* a release that leaves the pending count as it is *)
spawnNextEnemyKeepsPending ==
    /\ spawnDue' = FALSE
    /\ \E roll \in Rolls(GetWaveComposition(currentWave)) :
          LET enemyType == selectEnemyType(GetWaveComposition(currentWave), roll)
          IN  IF HasEnemyConfig(enemyType)
              THEN /\ enemies' = Put(enemies, NewId("enemy"),
                                     CreateEnemy(enemyType, startPos, currentWave))
                   /\ remainingInWave' = remainingInWave
              ELSE UNCHANGED <<enemies, remainingInWave>>
    /\ UNCHANGED <<currentWave, waveDue>>

(* WaveSystem.spawnNextEnemy followed by s.nextEnemySpawn = now + delay *)
spawnNextEnemy ==
    /\ spawnDue' = FALSE
    /\ \E roll \in Rolls(GetWaveComposition(currentWave)) :
          LET enemyType == selectEnemyType(GetWaveComposition(currentWave), roll)
          IN  IF HasEnemyConfig(enemyType)
              THEN /\ enemies' = Put(enemies, NewId("enemy"),
                                     CreateEnemy(enemyType, startPos, currentWave))
                   /\ remainingInWave' = remainingInWave - 1
              ELSE UNCHANGED <<enemies, remainingInWave>>
    /\ UNCHANGED <<currentWave, waveDue>>

(* a wave stage that starts the next wave as soon as the interval is over *)
WaveUpdateEager ==
    /\ Stage("wave")
    /\ IF waveDue THEN spawnWave
       ELSE IF remainingInWave > 0 /\ spawnDue THEN spawnNextEnemy
       ELSE UNCHANGED <<enemies, waveSys>>
    /\ StageDone
    /\ UNCHANGED <<towers, projectiles, state, running, slain>>

WaveUpdate ==
    /\ Stage("wave")
    /\ IF remainingInWave = 0 /\ waveDue THEN spawnWave
       ELSE IF remainingInWave > 0 /\ spawnDue THEN spawnNextEnemy
       ELSE UNCHANGED <<enemies, waveSys>>
    /\ StageDone
    /\ UNCHANGED <<towers, projectiles, state, running, slain>>

(* the wave stage when a wave is due and the configuration has a gap for it: *)
(* CreateEnemiesForWave returns an error                                     *)
WaveUpdateGap ==
    /\ Stage("wave")
    /\ remainingInWave = 0 /\ waveDue
    /\ spawnWaveWith(TRUE)
    /\ StageDone
    /\ UNCHANGED <<towers, projectiles, state, running, slain>>

(* MovementSystem *)

(* a movement that counts two waypoints for one *)
MoveEnemySkipsWaypoint(e, d) ==
    IF ~e.alive THEN e
    ELSE IF e.pathIndex >= PathLen - 1 THEN e
    ELSE LET target == PathAt(e.pathIndex + 1)
             dx == target.x - e.pos.x
             dy == target.y - e.pos.y
             distance == Sqrt(dx * dx + dy * dy)
             moveDistance == Min(e.speed * d, distance)
         IN  IF dx * dx + dy * dy < 1
             THEN [e EXCEPT !.pathIndex = Min(@ + 2, PathLen - 1)]
             ELSE [e EXCEPT !.pos = Pos(e.pos.x + (dx * moveDistance) \div distance,
                                        e.pos.y + (dy * moveDistance) \div distance)]

MoveEnemy(e, d) ==
    IF ~e.alive THEN e
    ELSE IF e.pathIndex >= PathLen - 1 THEN e
    ELSE LET target == PathAt(e.pathIndex + 1)
             dx == target.x - e.pos.x
             dy == target.y - e.pos.y
             distance == Sqrt(dx * dx + dy * dy)
             moveDistance == Min(e.speed * d, distance)
         IN  IF dx * dx + dy * dy < 1
             THEN [e EXCEPT !.pathIndex = @ + 1]
             ELSE [e EXCEPT !.pos = Pos(e.pos.x + (dx * moveDistance) \div distance,
                                        e.pos.y + (dy * moveDistance) \div distance)]

(* The movement of one enemy on its own: an enemy of either kind, alive or  *)
(* not, with any path index and a position on the leg that index is on.    *)

Between(a, b, c) == (a <= b /\ b <= c) \/ (c <= b /\ b <= a)

OnLeg(i) ==
    IF i >= PathLen - 1 THEN {PathAt(PathLen - 1)}
    ELSE {p \in [x : 0..2, y : 0..1] :
             /\ Between(PathAt(i).x, p.x, PathAt(i + 1).x)
             /\ Between(PathAt(i).y, p.y, PathAt(i + 1).y)}

MovedEnemies ==
    {[CreateEnemy(enemyType, pos[2], 1) EXCEPT !.pathIndex = pos[1], !.alive = up] :
        enemyType \in DOMAIN cfg.Enemies, up \in BOOLEAN,
        pos \in {q \in (0..(PathLen - 1)) \X [x : 0..2, y : 0..1] : q[2] \in OnLeg(q[1])}}

(* MovementSystem.Update reaches the enemy, on a game that has not started *)
CallMoveEnemy ==
    /\ ~running /\ pc = 0 /\ starting = 0 /\ launched = 0 /\ loops = Empty
    /\ currentWave = 0 /\ ~waveDue
    /\ \E e \in MovedEnemies, d \in DtFrames :
          pure' = [fn |-> "MoveEnemy", arg |-> [enemy |-> e, dt |-> d], out |-> MoveEnemy(e, d)]
    /\ UNCHANGED <<game, clients, readers, loopv, mgr, idx>>

MovementUpdate ==
    /\ Stage("movement")
    /\ enemies' = [id \in DOMAIN enemies |->
                     IF enemies[id].alive THEN MoveEnemy(enemies[id], dt)
                     ELSE enemies[id]]
    /\ StageDone
    /\ UNCHANGED <<towers, projectiles, state, running, waveSys, slain>>

(* CombatSystem *)

(* the enemies the scan of CombatSystem.Update can end on: in range        *)
(* (dist < tower.Range) and at minimal distance; which of several equally   *)
(* near ones is met first depends on the map order                          *)
(* a scan that ends on any enemy in range *)
AnyInRange(t) ==
    {e \in GetAlive(enemies) : DistSq(enemies[e].pos, t.pos) < t.range * t.range}

Nearest(t) ==
    {e \in GetAlive(enemies) :
        /\ DistSq(enemies[e].pos, t.pos) < t.range * t.range
        /\ \A o \in GetAlive(enemies) :
              DistSq(enemies[o].pos, t.pos) >= DistSq(enemies[e].pos, t.pos)}

ProjType(t) ==
    IF t.towerType = "sniper" THEN "sniper"
    ELSE IF t.towerType = "splash" THEN "splash"
    ELSE "basic"

(* the towers that fire in this tick *)
Shooters ==
    {id \in GetAlive(towers) :
        /\ towers[id].canShoot
        /\ Nearest(towers[id]) # {}
        /\ HasProjectileConfig(ProjType(towers[id]))}

(* the fresh identifier of the projectile tower id fires *)
ShotId(id) == Fresh("projectile", 1 + Cardinality({o \in Shooters : o[2] < id[2]}))

(* a combat stage in which a tower is spent by its shot *)
CombatUpdateSpendsTower ==
    /\ Stage("combat")
    /\ \E aim \in [Shooters -> DOMAIN enemies] :
          /\ \A id \in Shooters : aim[id] \in Nearest(towers[id])
          /\ projectiles' =
                [p \in DOMAIN projectiles \cup {ShotId(id) : id \in Shooters} |->
                    IF p \in DOMAIN projectiles THEN projectiles[p]
                    ELSE LET id == CHOOSE o \in Shooters : ShotId(o) = p
                         IN  CreateProjectile(ProjType(towers[id]), towers[id].pos,
                                              aim[id], towers[id].damage,
                                              towers[id].splashRadius)]
    /\ towers' = [id \in DOMAIN towers |->
                    IF id \in Shooters
                    THEN [towers[id] EXCEPT !.canShoot = FALSE, !.alive = FALSE]
                    ELSE towers[id]]
    /\ StageDone
    /\ UNCHANGED <<enemies, state, running, waveSys, slain>>

CombatUpdate ==
    /\ Stage("combat")
    /\ \E aim \in [Shooters -> DOMAIN enemies] :
          /\ \A id \in Shooters : aim[id] \in Nearest(towers[id])
          /\ projectiles' =
                [p \in DOMAIN projectiles \cup {ShotId(id) : id \in Shooters} |->
                    IF p \in DOMAIN projectiles THEN projectiles[p]
                    ELSE LET id == CHOOSE o \in Shooters : ShotId(o) = p
                         IN  CreateProjectile(ProjType(towers[id]), towers[id].pos,
                                              aim[id], towers[id].damage,
                                              towers[id].splashRadius)]
    /\ towers' = [id \in DOMAIN towers |->
                    IF id \in Shooters THEN [towers[id] EXCEPT !.canShoot = FALSE]
                    ELSE towers[id]]
    /\ StageDone
    /\ UNCHANGED <<enemies, state, running, waveSys, slain>>

(* ProjectileSystem *)

(* a splash that does the full damage of the projectile *)
applySplashDamageFull(es, impactPos, radius, damage, primaryTargetID) ==
    [id \in DOMAIN es |->
        IF /\ es[id].alive
           /\ id # primaryTargetID
           /\ DistSq(es[id].pos, impactPos) <= radius * radius
        THEN TakeDamage(es[id], damage)
        ELSE es[id]]

(* ProjectileSystem.applySplashDamage on the enemy index es *)
applySplashDamage(es, impactPos, radius, damage, primaryTargetID) ==
    LET splashDamage == IF damage \div 2 < 1 THEN 1 ELSE damage \div 2
    IN  [id \in DOMAIN es |->
            IF /\ es[id].alive
               /\ id # primaryTargetID
               /\ DistSq(es[id].pos, impactPos) <= radius * radius
            THEN TakeDamage(es[id], splashDamage)
            ELSE es[id]]

(* an iteration that leaves a projectile without a target in flight *)
ResolveProjectileKeepsLost(p, w, d) ==
    LET proj == w.projectiles[p]
        dead == [w EXCEPT !.projectiles[p].alive = FALSE]
    IN  IF ~proj.alive THEN w
        ELSE IF proj.target \notin DOMAIN w.enemies THEN w
        ELSE IF ~w.enemies[proj.target].alive THEN w
        ELSE LET target == w.enemies[proj.target]
                 dx == target.pos.x - proj.pos.x
                 dy == target.pos.y - proj.pos.y
                 moveDistance == proj.speed * d
                 hit == [w.enemies EXCEPT ![proj.target] = TakeDamage(@, proj.damage)]
             IN  IF dx * dx + dy * dy <= moveDistance * moveDistance
                 THEN [ projectiles |-> dead.projectiles,
                        enemies |->
                          IF proj.splashRadius > 0
                          THEN applySplashDamage(hit, target.pos, proj.splashRadius,
                                                 proj.damage, proj.target)
                          ELSE hit ]
                 ELSE [w EXCEPT !.projectiles[p].pos =
                          Pos(proj.pos.x + (dx * moveDistance) \div Sqrt(dx * dx + dy * dy),
                              proj.pos.y + (dy * moveDistance) \div Sqrt(dx * dx + dy * dy))]

(* one iteration of the loop of ProjectileSystem.Update, for projectile p,   *)
(* on w = [enemies, projectiles]                                             *)
ResolveProjectile(p, w, d) ==
    LET proj == w.projectiles[p]
        dead == [w EXCEPT !.projectiles[p].alive = FALSE]
    IN  IF ~proj.alive THEN w
        ELSE IF proj.target \notin DOMAIN w.enemies THEN dead
        ELSE IF ~w.enemies[proj.target].alive THEN dead
        ELSE LET target == w.enemies[proj.target]
                 dx == target.pos.x - proj.pos.x
                 dy == target.pos.y - proj.pos.y
                 moveDistance == proj.speed * d
                 hit == [w.enemies EXCEPT ![proj.target] = TakeDamage(@, proj.damage)]
             IN  IF dx * dx + dy * dy <= moveDistance * moveDistance
                 THEN [ projectiles |-> dead.projectiles,
                        enemies |->
                          IF proj.splashRadius > 0
                          THEN applySplashDamage(hit, target.pos, proj.splashRadius,
                                                 proj.damage, proj.target)
                          ELSE hit ]
                 ELSE [w EXCEPT !.projectiles[p].pos =
                          Pos(proj.pos.x + (dx * moveDistance) \div Sqrt(dx * dx + dy * dy),
                              proj.pos.y + (dy * moveDistance) \div Sqrt(dx * dx + dy * dy))]

(* The projectile stage on its own: one projectile that has reached its     *)
(* target, with any damage and splash radius, and a second enemy at any     *)
(* distance from the first, alive with some hp or dead in the same stage.   *)

Primary == <<"enemy", 1>>
Other == <<"enemy", 2>>
Shot == <<"projectile", 1>>

HitWorlds ==
    {[ enemies |->
         [id \in {Primary, Other} |->
            IF id = Primary
            THEN [CreateEnemy("basic", Pos(2, 0), 1) EXCEPT !.hp = hp, !.maxHp = MaxDamage + 1]
            ELSE [CreateEnemy("basic", at, 1) EXCEPT
                     !.hp = IF up THEN other ELSE 0, !.maxHp = MaxDamage + 1, !.alive = up]],
       projectiles |->
         [id \in {Shot} |->
            [CreateProjectile("splash", Pos(2, 0), Primary, damage, radius)
                EXCEPT !.pos = Pos(2, 0)]] ] :
       hp \in {1, MaxDamage + 1}, other \in {1, MaxDamage + 1}, up \in BOOLEAN,
       at \in {Pos(2 + x, y) : x \in 0..(MaxRadius + 1), y \in 0..1},
       damage \in 1..MaxDamage, radius \in 0..MaxRadius}

(* ProjectileSystem.Update with the one projectile of such a World *)
CallProjectileHit ==
    /\ \E hw \in HitWorlds :
          pure' = [fn |-> "ProjectileHit", arg |-> hw, out |-> ResolveProjectile(Shot, hw, 1)]
    /\ UNCHANGED <<game, clients, readers, loopv, mgr, idx>>

RECURSIVE ResolveAll(_, _, _)
ResolveAll(order, w, d) ==
    IF order = <<>> THEN w
    ELSE ResolveAll(Tail(order), ResolveProjectile(Head(order), w, d), d)

ProjectileUpdate ==
    /\ Stage("projectile")
    /\ \E order \in Orders(GetAlive(projectiles)) :
          LET w == ResolveAll(order, [enemies |-> enemies, projectiles |-> projectiles], dt)
          IN  /\ enemies' = w.enemies
              /\ projectiles' = w.projectiles
              /\ slain' = slain \cup {id \in DOMAIN enemies :
                                        enemies[id].hp > 0 /\ w.enemies[id].hp <= 0}
    /\ StageDone
    /\ UNCHANGED <<towers, state, running, waveSys>>

(* RewardSystem *)

(* the enemies RewardSystem.Update rewards: taken from World.GetEnemies and  *)
(* then tested for HP <= 0 && Alive                                          *)
JustDied == {id \in GetAlive(enemies) : enemies[id].hp <= 0 /\ enemies[id].alive}

(* the callback NewGame gives the reward system, for all of JustDied *)
RewardUpdate ==
    /\ Stage("reward")
    /\ state' = [state EXCEPT
                    !.Gold = @ + SumOver(JustDied, [id \in JustDied |-> enemies[id].goldReward]),
                    !.Score = @ + SumOver(JustDied, [id \in JustDied |-> enemies[id].scoreReward])]
    /\ enemies' = [id \in DOMAIN enemies |->
                     IF id \in JustDied THEN [enemies[id] EXCEPT !.alive = FALSE]
                     ELSE enemies[id]]
    /\ StageDone
    /\ UNCHANGED <<towers, projectiles, running, waveSys, slain>>

(* LifecycleSystem *)

(* every enemy at the end of the path, the dead ones too *)
ReachedEndDeadOrAlive == {id \in DOMAIN enemies : enemies[id].pathIndex >= PathLen - 1}

(* the enemies LifecycleSystem.Update finds at the end of the path *)
ReachedEnd == {id \in GetAlive(enemies) :
                 enemies[id].alive /\ enemies[id].pathIndex >= PathLen - 1}

(* a callback that takes one life for the whole stage *)
LoseLivesOnce(st, n) ==
    [st EXCEPT !.Lives = @ - (IF n > 0 THEN 1 ELSE 0),
               !.GameOver = IF n > 0 /\ st.Lives - 1 <= 0 THEN TRUE ELSE @]

(* a life-loss callback that also fines the player 10 gold per arrival *)
LoseLivesAndGold(st, n) ==
    [st EXCEPT !.Lives = @ - n,
               !.Gold = IF @ >= 10 * n THEN @ - 10 * n ELSE 0,
               !.GameOver = IF n > 0 /\ st.Lives - n <= 0 THEN TRUE ELSE @]

(* a life-loss callback that ends the game only below zero lives *)
LoseLivesBelowZero(st, n) ==
    [st EXCEPT !.Lives = @ - n,
               !.GameOver = IF n > 0 /\ st.Lives - n < 0 THEN TRUE ELSE @]

(* the life-loss callback NewGame gives the lifecycle system, called n times *)
LoseLives(st, n) ==
    [st EXCEPT !.Lives = @ - n,
               !.GameOver = IF n > 0 /\ st.Lives - n <= 0 THEN TRUE ELSE @]

LifecycleUpdate ==
    /\ Stage("lifecycle")
    /\ state' = LoseLives(state, Cardinality(ReachedEnd))
    /\ enemies' = CleanupDead([id \in DOMAIN enemies |->
                                 IF id \in ReachedEnd
                                 THEN [enemies[id] EXCEPT !.alive = FALSE]
                                 ELSE enemies[id]])
    /\ towers' = CleanupDead(towers)
    /\ projectiles' = CleanupDead(projectiles)
    /\ StageDone
    /\ slain' = {}
    /\ UNCHANGED <<running, waveSys>>

----------------------------------------------------------------------------
(* game: the tick *)


(* The tick loop. Start makes a ticker and a goroutine that ranges over the  *)
(* ticker's channel; at each tick the goroutine reads g.running under        *)
(* g.mu.RLock, releases the lock, and returns if the game is not running or  *)
(* calls Update. Ticker.Stop closes no channel: a tick already in the        *)
(* channel (it holds one) is still received. A goroutine waiting on a        *)
(* stopped ticker with an empty channel waits for ever, and is left out, as  *)
(* is a ticker that neither g.ticker nor a goroutine refers to.              *)

NoTicker == 0

NewTicker == CHOOSE n \in 1..(Cardinality(DOMAIN tickers) + 1) : n \notin DOMAIN tickers

NewLoop == CHOOSE n \in 1..(Cardinality(DOMAIN loops) + 1) : n \notin DOMAIN loops

(* goroutines and Start calls that a tick loop belongs to or will belong to *)
Threads == starting + launched + Cardinality(DOMAIN loops)

Waiting(ts, ls) ==
    {l \in DOMAIN ls : ~(ls[l].at = "range" /\ ts[ls[l].ticker] = "dead")}

Prune(ts, g, ls) ==
    [ loops |-> [l \in Waiting(ts, ls) |-> ls[l]],
      tickers |-> [t \in {u \in DOMAIN ts :
                             u = g \/ \E l \in Waiting(ts, ls) : ls[l].ticker = u}
                      |-> ts[t]] ]

(* the goroutines that have read g.running = true and are about to call Update *)
Checked == {l \in DOMAIN loops : loops[l].at = "checked"}

(* the goroutine calls g.Update(), which takes g.mu, and is back at its range *)
(* clause when Update returns                                                 *)
LoopCallsUpdate(l) ==
    LET ls == [loops EXCEPT ![l].at = "range"]
    IN  /\ loops' = Prune(tickers, gticker, ls).loops
        /\ tickers' = Prune(tickers, gticker, ls).tickers
        /\ UNCHANGED gticker

(* an Update that does not mirror the wave counter *)
UpdateBeginKeepsWave ==
    /\ pc = 0
    /\ \E l \in Checked : LoopCallsUpdate(l)
    /\ ~state.GameOver
    /\ dt' \in DtFrames
    /\ state' = state
    /\ pc' = 1
    /\ ran' = <<>>
    /\ slain' = {}
    /\ UNCHANGED <<world, running, waveSys, clients, beside, starting, launched>>

(* Game.Update up to g.systemManager.Update: takes g.mu, clamps dt, mirrors  *)
(* the wave counter                                                          *)
UpdateBegin ==
    /\ pc = 0
    /\ \E l \in Checked : LoopCallsUpdate(l)
    /\ ~state.GameOver
    /\ dt' \in DtFrames
    /\ state' = [state EXCEPT !.Wave = currentWave]
    /\ pc' = 1
    /\ ran' = <<>>
    /\ slain' = {}
    /\ UNCHANGED <<world, running, waveSys, clients, beside, starting, launched>>

(* an Update that runs the pipeline of a lost game *)
UpdateGameOverRuns ==
    /\ pc = 0
    /\ \E l \in Checked : LoopCallsUpdate(l)
    /\ state.GameOver
    /\ dt' \in DtFrames
    /\ state' = [state EXCEPT !.Wave = currentWave]
    /\ pc' = 1
    /\ ran' = <<>>
    /\ slain' = {}
    /\ UNCHANGED <<world, running, waveSys, clients, beside, starting, launched>>

(* Game.Update when the game is over: returns at once *)
UpdateGameOver ==
    /\ pc = 0
    /\ \E l \in Checked : LoopCallsUpdate(l)
    /\ state.GameOver
    /\ UNCHANGED <<world, state, running, pc, dt, waveSys, observed, clients,
                   beside, starting, launched>>

(* wall-clock time passes: the 10 s since the last wave are over *)
WaveTimerExpires ==
    /\ pc = 0
    /\ ~waveDue
    /\ currentWave < MaxWave
    /\ Cardinality(DOMAIN enemies) < MaxEnemies
    /\ waveDue' = TRUE
    /\ UNCHANGED <<world, state, running, pc, dt, currentWave, remainingInWave,
                   spawnDue, observed, clients, aside>>

(* wall-clock time passes: nextEnemySpawn is in the past *)
SpawnTimerExpires ==
    /\ pc = 0
    /\ ~spawnDue
    /\ remainingInWave > 0
    /\ Cardinality(DOMAIN enemies) < MaxEnemies
    /\ spawnDue' = TRUE
    /\ UNCHANGED <<world, state, running, pc, dt, currentWave, remainingInWave,
                   waveDue, observed, clients, aside>>

(* wall-clock time passes: 1/FireRate since a tower's LastShot are over *)
CooldownExpires ==
    /\ pc = 0
    /\ Cardinality(DOMAIN projectiles)
          + Cardinality({id \in DOMAIN towers : towers[id].canShoot}) < MaxProjectiles
    /\ \E id \in DOMAIN towers :
          /\ ~towers[id].canShoot
          /\ towers' = [towers EXCEPT ![id].canShoot = TRUE]
    /\ UNCHANGED <<enemies, projectiles, state, running, pc, dt, waveSys,
                   observed, clients, aside>>

----------------------------------------------------------------------------
(* game: Start, Stop, Reset *)

(* Game.Start under g.mu: returns if the game runs, else marks it running *)
Start ==
    /\ pc = 0
    /\ IF running
       THEN UNCHANGED <<running, starting>>
       ELSE /\ Threads < MaxLoops
            /\ running' = TRUE
            /\ starting' = starting + 1
    /\ UNCHANGED <<world, state, pc, dt, waveSys, observed, clients, beside,
                   tickers, gticker, loops, launched>>

(* Game.Start after g.mu.Unlock: g.ticker = time.NewTicker(..) and go func *)
StartLoop ==
    /\ starting > 0
    /\ starting' = starting - 1
    /\ launched' = launched + 1
    /\ gticker' = NewTicker
    /\ tickers' = Prune(Put(tickers, NewTicker, "live"), NewTicker, loops).tickers
    /\ UNCHANGED <<game, clients, beside, loops>>

(* the goroutine starts: for range g.ticker.C evaluates g.ticker once, and  *)
(* finds the ticker g.ticker holds by then                                  *)
LoopBegins ==
    /\ launched > 0
    /\ launched' = launched - 1
    /\ loops' = IF tickers[gticker] = "dead" THEN loops
                ELSE Put(loops, NewLoop, [at |-> "range", ticker |-> gticker])
    /\ UNCHANGED <<game, clients, beside, tickers, gticker, starting>>

(* a tick arrives on the channel: the goroutine reads g.running under RLock *)
LoopWakes ==
    /\ pc = 0
    /\ \E l \in DOMAIN loops :
          /\ loops[l].at = "range"
          /\ tickers[loops[l].ticker] # "dead"
          /\ LET ts == IF tickers[loops[l].ticker] = "buffered"
                       THEN [tickers EXCEPT ![loops[l].ticker] = "dead"]
                       ELSE tickers
                 ls == IF running THEN [loops EXCEPT ![l].at = "checked"]
                       ELSE [k \in DOMAIN loops \ {l} |-> loops[k]]
             IN  /\ loops' = Prune(ts, gticker, ls).loops
                 /\ tickers' = Prune(ts, gticker, ls).tickers
    /\ UNCHANGED <<game, clients, beside, gticker, starting, launched>>

(* g.ticker.Stop(): no more ticks are sent; one may be in the channel *)
StopTicker ==
    IF gticker # NoTicker /\ tickers[gticker] = "live"
    THEN {[tickers EXCEPT ![gticker] = left] : left \in {"buffered", "dead"}}
    ELSE {tickers}

(* a Stop that also revives a lost game *)
StopAndRevive ==
    /\ pc = 0
    /\ IF ~running
       THEN UNCHANGED <<running, tickers, loops>>
       ELSE /\ running' = FALSE
            /\ \E ts \in StopTicker :
                  /\ tickers' = Prune(ts, gticker, loops).tickers
                  /\ loops' = Prune(ts, gticker, loops).loops
    /\ state' = [state EXCEPT !.GameOver = FALSE]
    /\ UNCHANGED <<world, pc, dt, waveSys, observed, clients, beside, gticker,
                   starting, launched>>

(* Game.Stop *)
Stop ==
    /\ pc = 0
    /\ IF ~running
       THEN UNCHANGED <<running, tickers, loops>>
       ELSE /\ running' = FALSE
            /\ \E ts \in StopTicker :
                  /\ tickers' = Prune(ts, gticker, loops).tickers
                  /\ loops' = Prune(ts, gticker, loops).loops
    /\ UNCHANGED <<world, state, pc, dt, waveSys, observed, clients, beside,
                   gticker, starting, launched>>

NewState ==
    [ Wave |-> 0, Gold |-> cfg.Game.StartingGold, Lives |-> cfg.Game.StartingLives,
      Score |-> 0, GameOver |-> FALSE ]

(* a Reset whose wave system keeps its pending drip and its wave timer *)
ResetKeepsDrip ==
    /\ pc = 0
    /\ towers' = Empty
    /\ enemies' = Empty
    /\ projectiles' = Empty
    /\ state' = NewState
    /\ currentWave' = 0
    /\ ran' = <<>>
    /\ slain' = {}
    /\ UNCHANGED <<running, pc, dt, remainingInWave, waveDue, spawnDue, clients, aside>>

(* Game.Reset, with World.Clear and WaveSystem.Reset *)
Reset ==
    /\ pc = 0
    /\ towers' = Empty
    /\ enemies' = Empty
    /\ projectiles' = Empty
    /\ state' = NewState
    /\ currentWave' = 0
    /\ remainingInWave' = 0
    /\ waveDue' = FALSE
    /\ ran' = <<>>
    /\ slain' = {}
    /\ UNCHANGED <<running, pc, dt, spawnDue, clients, aside>>

----------------------------------------------------------------------------
(* game: snapshots, SaveState, LoadFromState *)

(* convertTowers / convertEnemies / convertProjectiles: the DTOs of the      *)
(* alive entities                                                            *)
convertTowers(ts) ==
    {[ ID |-> id, Type |-> ts[id].towerType, Position |-> ts[id].pos,
       Range |-> ts[id].range, Damage |-> ts[id].damage,
       FireRate |-> ts[id].fireRate,
       SplashRadius |-> ts[id].splashRadius ] : id \in GetAlive(ts)}

convertEnemies(es) ==
    {[ ID |-> id, Type |-> es[id].enemyType, Position |-> es[id].pos,
       HP |-> es[id].hp, MaxHP |-> es[id].maxHp, Speed |-> es[id].speed,
       PathIndex |-> es[id].pathIndex ] : id \in GetAlive(es)}

convertProjectiles(ps) ==
    {[ ID |-> id, Type |-> ps[id].projectileType, Position |-> ps[id].pos,
       Target |-> ps[id].target, Speed |-> ps[id].speed,
       Damage |-> ps[id].damage,
       SplashRadius |-> ps[id].splashRadius ] : id \in GetAlive(ps)}

(* the snapshot Game.GetState builds from a World and a GameState *)
Snapshot(ts, es, ps, st) ==
    [ Towers |-> convertTowers(ts), Enemies |-> convertEnemies(es),
      Projectiles |-> convertProjectiles(ps), Wave |-> st.Wave, Gold |-> st.Gold,
      Lives |-> st.Lives, Score |-> st.Score, GameOver |-> st.GameOver ]

(* Game.GetState *)
GetState == Snapshot(towers, enemies, projectiles, state)

(* json.Marshal of the DTOs: the keys are the json tags, and splashRadius is *)
(* left out when it is zero (omitempty)                                      *)
MarshalTower(d) ==
    IF d.SplashRadius = 0
    THEN [ id |-> d.ID, towerType |-> d.Type, position |-> d.Position,
           range |-> d.Range, damage |-> d.Damage, fireRate |-> d.FireRate ]
    ELSE [ id |-> d.ID, towerType |-> d.Type, position |-> d.Position,
           range |-> d.Range, damage |-> d.Damage, fireRate |-> d.FireRate,
           splashRadius |-> d.SplashRadius ]

MarshalEnemy(d) ==
    [ id |-> d.ID, enemyType |-> d.Type, position |-> d.Position, hp |-> d.HP,
      maxHp |-> d.MaxHP, speed |-> d.Speed, pathIndex |-> d.PathIndex ]

MarshalProjectile(d) ==
    IF d.SplashRadius = 0
    THEN [ id |-> d.ID, projectileType |-> d.Type, position |-> d.Position,
           target |-> d.Target, speed |-> d.Speed, damage |-> d.Damage ]
    ELSE [ id |-> d.ID, projectileType |-> d.Type, position |-> d.Position,
           target |-> d.Target, speed |-> d.Speed, damage |-> d.Damage,
           splashRadius |-> d.SplashRadius ]

(* json.Marshal of a GameStateSnapshot *)
Marshal(snapshot) ==
    [ towers |-> {MarshalTower(d) : d \in snapshot.Towers},
      enemies |-> {MarshalEnemy(d) : d \in snapshot.Enemies},
      projectiles |-> {MarshalProjectile(d) : d \in snapshot.Projectiles},
      wave |-> snapshot.Wave, gold |-> snapshot.Gold, lives |-> snapshot.Lives,
      score |-> snapshot.Score, gameOver |-> snapshot.GameOver ]

(* Game.MarshalState: json.Marshal(g.GetState()) *)
MarshalState == Marshal(GetState)

(* bytes json.Unmarshal rejects *)
Garbage == [malformed |-> TRUE]

Decodes(data) == "towers" \in DOMAIN data

(* a decoder that knows no splashRadius key *)
SplashOfIgnored(j) == 0

(* json.Unmarshal into GameStateSnapshot: an absent key leaves the zero value *)
SplashOf(j) == IF "splashRadius" \in DOMAIN j THEN j.splashRadius ELSE 0

Unmarshal(data) ==
    [ Towers |-> {[ ID |-> j.id, Type |-> j.towerType, Position |-> j.position,
                    Range |-> j.range, Damage |-> j.damage, FireRate |-> j.fireRate,
                    SplashRadius |-> SplashOf(j) ] : j \in data.towers},
      Enemies |-> {[ ID |-> j.id, Type |-> j.enemyType, Position |-> j.position,
                     HP |-> j.hp, MaxHP |-> j.maxHp, Speed |-> j.speed,
                     PathIndex |-> j.pathIndex ] : j \in data.enemies},
      Projectiles |-> {[ ID |-> j.id, Type |-> j.projectileType,
                         Position |-> j.position, Target |-> j.target,
                         Speed |-> j.speed, Damage |-> j.damage,
                         SplashRadius |-> SplashOf(j) ] : j \in data.projectiles},
      Wave |-> data.wave, Gold |-> data.gold, Lives |-> data.lives,
      Score |-> data.score, GameOver |-> data.gameOver ]

(* the entities LoadFromState builds from the DTOs; LastShot is time.Now(),  *)
(* and the rewards of an enemy are not in the snapshot                       *)
RestoreTowers(snapshot) ==
    [id \in {d.ID : d \in snapshot.Towers} |->
        LET d == CHOOSE o \in snapshot.Towers : o.ID = id
        IN  [ towerType |-> d.Type, pos |-> d.Position, range |-> d.Range,
              damage |-> d.Damage, fireRate |-> d.FireRate,
              splashRadius |-> d.SplashRadius, alive |-> TRUE, canShoot |-> FALSE ]]

RestoreEnemies(snapshot) ==
    [id \in {d.ID : d \in snapshot.Enemies} |->
        LET d == CHOOSE o \in snapshot.Enemies : o.ID = id
        IN  [ enemyType |-> d.Type, pos |-> d.Position, hp |-> d.HP,
              maxHp |-> d.MaxHP, speed |-> d.Speed, pathIndex |-> d.PathIndex,
              goldReward |-> 0, scoreReward |-> 0, alive |-> TRUE ]]

RestoreProjectiles(snapshot) ==
    [id \in {d.ID : d \in snapshot.Projectiles} |->
        LET d == CHOOSE o \in snapshot.Projectiles : o.ID = id
        IN  [ projectileType |-> d.Type, pos |-> d.Position, target |-> d.Target,
              speed |-> d.Speed, damage |-> d.Damage,
              splashRadius |-> d.SplashRadius, alive |-> TRUE ]]

RestoreState(snapshot) ==
    [ Wave |-> snapshot.Wave, Gold |-> snapshot.Gold, Lives |-> snapshot.Lives,
      Score |-> snapshot.Score, GameOver |-> snapshot.GameOver ]

(* Game.SaveState: returns MarshalState under g.mu and changes nothing *)
SaveState ==
    /\ pc = 0
    /\ UNCHANGED vars

(* what LoadFromState returns: the error of json.Unmarshal, or nil *)
ErrDecode == "invalid character"

LoadFromStateResult(data) == IF Decodes(data) THEN Ok ELSE ErrDecode

(* a LoadFromState that clears the World before it decodes the bytes *)
LoadFromStateClearFirst(data) ==
    /\ pc = 0
    /\ IF ~Decodes(data)
       THEN /\ towers' = Empty
            /\ enemies' = Empty
            /\ projectiles' = Empty
            /\ UNCHANGED <<state, running, pc, dt, waveSys, observed, clients, aside>>
       ELSE /\ towers' = RestoreTowers(Unmarshal(data))
            /\ enemies' = RestoreEnemies(Unmarshal(data))
            /\ projectiles' = RestoreProjectiles(Unmarshal(data))
            /\ state' = RestoreState(Unmarshal(data))
            /\ currentWave' = Unmarshal(data).Wave
            /\ ran' = <<>>
            /\ slain' = {}
            /\ UNCHANGED <<running, pc, dt, remainingInWave, waveDue, spawnDue,
                           clients, aside>>

(* Game.LoadFromState *)
LoadFromState(data) ==
    /\ pc = 0
    /\ IF ~Decodes(data)
       THEN UNCHANGED vars
       ELSE /\ towers' = RestoreTowers(Unmarshal(data))
            /\ enemies' = RestoreEnemies(Unmarshal(data))
            /\ projectiles' = RestoreProjectiles(Unmarshal(data))
            /\ state' = RestoreState(Unmarshal(data))
            /\ currentWave' = Unmarshal(data).Wave
            /\ ran' = <<>>
            /\ slain' = {}
            /\ UNCHANGED <<running, pc, dt, remainingInWave, waveDue, spawnDue,
                           clients, aside>>

----------------------------------------------------------------------------
(* A client calling GetState while the game runs: the call builds its       *)
(* snapshot under g.mu.RLock, which waits while Update or a command holds   *)
(* g.mu, and hands it to the caller later, when the game may have moved on  *)

NoSnapshot == [pending |-> FALSE]

(* a GetState that reads the World and the state without taking g.mu *)
ReadStateUnlocked ==
    /\ snap = NoSnapshot
    /\ snap' = GetState
    /\ UNCHANGED <<game, clients, loopv, mgr, apart>>

(* Game.GetState (also under MarshalState and SaveState) *)
ReadState ==
    /\ pc = 0
    /\ snap = NoSnapshot
    /\ snap' = GetState
    /\ UNCHANGED <<game, clients, loopv, mgr, apart>>

(* the caller has its snapshot *)
ReadReturns ==
    /\ snap # NoSnapshot
    /\ snap' = NoSnapshot
    /\ UNCHANGED <<game, clients, loopv, mgr, apart>>

----------------------------------------------------------------------------
(* Clients calling AddTower concurrently: the calls are issued together and *)
(* each takes g.mu when it is free, in any order, for the whole of AddTower *)

NoCalls == [towers |-> Empty, gold |-> 0]

Requests == [towerType : CallTypes, pos : CallSpots]

Issue ==
    /\ pc = 0
    /\ calls = Empty
    /\ \E n \in 1..MaxCalls : calls' \in [1..n -> Requests]
    /\ returned' = Empty
    /\ before' = [towers |-> towers, gold |-> state.Gold]
    /\ UNCHANGED <<world, state, running, pc, dt, waveSys, observed, aside>>

(* call c gets the lock and runs AddTower; it returns the DTO of the tower  *)
(* it has added, or the error                                               *)
Serve(c) ==
    /\ AddTower(calls[c].towerType, calls[c].pos)
    /\ returned' = Put(returned, c,
                       [ err |-> AddTowerResult(calls[c].towerType, calls[c].pos),
                         id |-> IF AddTowerResult(calls[c].towerType, calls[c].pos) = Ok
                                THEN NewId("tower") ELSE <<"none", 0>> ])
    /\ UNCHANGED <<calls, before, aside>>

ServeSome == \E c \in DOMAIN calls \ DOMAIN returned : Serve(c)

(* the clients have their answers *)
Collect ==
    /\ pc = 0
    /\ calls # Empty
    /\ DOMAIN returned = DOMAIN calls
    /\ calls' = Empty
    /\ returned' = Empty
    /\ before' = NoCalls
    /\ UNCHANGED <<world, state, running, pc, dt, waveSys, observed, aside>>

----------------------------------------------------------------------------
(* The World on its own: the identifier index idx.entities and the three kind *)
(* indices, driven through AddEntity, RemoveEntity, CleanupDeadEntities and *)
(* Clear with entities of any kind under any of a few identifiers. An       *)
(* entity is its kind and its Alive flag; the index of its kind holds the   *)
(* same object as the identifier index.                                     *)

EntityTypes == {"tower", "enemy", "projectile"}

EntityIds == 1..MaxIds

(* NewWorld *)
NewWorld == [entities |-> Empty, tower |-> Empty, enemy |-> Empty, projectile |-> Empty]

Without(m, ids) == [k \in DOMAIN m \ ids |-> m[k]]

(* World.AddEntity *)
AddEntity(id, type) ==
    /\ idx' = [idx EXCEPT !.entities = Put(idx.entities, id, [type |-> type, alive |-> TRUE]),
                      ![type] = Put(idx[type], id, [type |-> type, alive |-> TRUE])]
    /\ UNCHANGED <<game, clients, readers, loopv, mgr, pure>>

AddSomeEntity == \E id \in EntityIds, type \in EntityTypes : AddEntity(id, type)

(* World.RemoveEntity *)
RemoveEntity ==
    /\ \E id \in EntityIds :
          IF id \notin DOMAIN idx.entities
          THEN UNCHANGED idx
          ELSE idx' = [idx EXCEPT !.entities = Without(idx.entities, {id}),
                              ![idx.entities[id].type] = Without(idx[idx.entities[id].type], {id})]
    /\ UNCHANGED <<game, clients, readers, loopv, mgr, pure>>

(* an entity of the World dies: Alive = false through the shared pointer *)
EntityDies ==
    /\ \E id \in DOMAIN idx.entities :
          /\ idx.entities[id].alive
          /\ idx' = [idx EXCEPT !.entities[id].alive = FALSE,
                            ![idx.entities[id].type][id].alive = FALSE]
    /\ UNCHANGED <<game, clients, readers, loopv, mgr, pure>>

(* World.CleanupDeadEntities *)
CleanupDeadEntities ==
    /\ LET dead == {id \in DOMAIN idx.entities : ~idx.entities[id].alive}
       IN  idx' = [entities |-> Without(idx.entities, dead),
                 tower |-> Without(idx.tower,
                              {id \in dead : idx.entities[id].type = "tower"}),
                 enemy |-> Without(idx.enemy,
                              {id \in dead : idx.entities[id].type = "enemy"}),
                 projectile |-> Without(idx.projectile,
                              {id \in dead : idx.entities[id].type = "projectile"})]
    /\ UNCHANGED <<game, clients, readers, loopv, mgr, pure>>

(* World.Clear *)
Clear ==
    /\ idx' = NewWorld
    /\ UNCHANGED <<game, clients, readers, loopv, mgr, pure>>

----------------------------------------------------------------------------
(* The Manager: a registry of instances under Manager.mu. Of an instance    *)
(* the manager's model keeps the running flag and Game.mu. A caller is a    *)
(* thread; RLock is granted while no writer holds the lock, Lock while no   *)
(* one holds it. A call that takes one lock, works and releases it is one   *)
(* step.                                                                    *)

defaultID == <<"default", 0>>

GameIDs == {defaultID} \cup {<<"uuid", n>> : n \in 1..MaxGames}

ThreadIds == 1..MaxThreads

(* holder of Game.mu that is the instance's tick loop, not a caller *)
TickLoop == 0

NoGame == 0

Free == [w |-> {}, r |-> {}]

ErrGameNotFound == "game not found"

Idle == [op |-> "idle", at |-> "idle", id |-> defaultID, g |-> NoGame, left |-> {},
         out |-> Ok]

(* operations on an instance that hold g.mu.Lock for their whole body *)
WriteOps == {"Start", "Stop", "AddTower", "Reset", "LoadFromState"}

InstanceOps == WriteOps \cup {"GetState"}

ManagerOps == {"CreateGame", "GetGame", "GetOrCreateDefault", "RemoveGame",
               "GetStats", "Shutdown"}

(* uuid.New().String() *)
NewGameID ==
    CHOOSE id \in GameIDs \ {defaultID} : \A i \in DOMAIN inst : inst[i].id # id

NewInstance == CHOOSE n \in 1..(Cardinality(DOMAIN inst) + 1) : n \notin DOMAIN inst

(* NewGame(id, config): stopped, its lock free *)
NewGame(id) == [id |-> id, running |-> FALSE]

(* an operation on an instance that would call into the manager while it   *)
(* holds g.mu                                                               *)
InstanceOpReadsRegistry(op) == "r"

(* the lock of the manager an instance operation takes while it holds g.mu: *)
(* none, the tick's onTick callback included                                *)
InstanceOpNeeds(op) == "-"

(* the lock of Manager.mu thread t has asked for and does not hold yet *)
RegistryMode(t) ==
    IF th[t].at = "await" /\ th[t].op \in {"CreateGame", "RemoveGame", "Shutdown"}
    THEN "w"
    ELSE IF th[t].at = "create" THEN "w"
    ELSE IF th[t].at = "await" /\ th[t].op \in {"GetGame", "GetOrCreateDefault", "GetStats"}
    THEN "r"
    ELSE IF th[t].at = "body" THEN InstanceOpNeeds(th[t].op)
    ELSE "-"

(* the lock of an instance thread t has asked for, and of which instances *)
InstanceMode(t) ==
    IF th[t].at = "await" /\ th[t].op \in WriteOps THEN "w"
    ELSE IF th[t].at = "await" /\ th[t].op = "GetState" THEN "r"
    ELSE IF th[t].at = "stop" /\ th[t].left # {} THEN "w"
    ELSE IF th[t].at = "read" /\ th[t].left # {} THEN "r"
    ELSE "-"

Targets(t) == IF th[t].at = "await" THEN {th[t].g} ELSE th[t].left

RegistryWriters == {u \in ThreadIds : RegistryMode(u) = "w"}

InstanceWriters(g) == {u \in ThreadIds : InstanceMode(u) = "w" /\ g \in Targets(u)}

MCanLock == mmu.w = {} /\ mmu.r = {}

MCanRLock == mmu.w = {}

GCanLock(g) == gmu[g].w = {} /\ gmu[g].r = {}

GCanRLock(g) == gmu[g].w = {}

(* thread t gets the lock it waits for even if every thread said to wait  *)
(* for a write lock has called Lock already: RLock then queues behind it  *)
CanGo(t) ==
    /\ RegistryMode(t) = "w" => MCanLock
    /\ RegistryMode(t) = "r" => MCanRLock /\ RegistryWriters \ {t} = {}
    /\ InstanceMode(t) = "w" => \E g \in Targets(t) : GCanLock(g)
    /\ InstanceMode(t) = "r" =>
          \E g \in Targets(t) : GCanRLock(g) /\ InstanceWriters(g) \ {t} = {}

(* the holders, and the writers in the queue, that thread t waits for *)
Blockers(t) ==
    IF CanGo(t) THEN {}
    ELSE (IF RegistryMode(t) = "w" THEN mmu.w \cup mmu.r ELSE {})
         \cup (IF RegistryMode(t) = "r" THEN mmu.w \cup RegistryWriters ELSE {})
         \cup (IF InstanceMode(t) = "w"
               THEN UNION {gmu[g].w \cup gmu[g].r : g \in Targets(t)} ELSE {})
         \cup (IF InstanceMode(t) = "r"
               THEN UNION {gmu[g].w \cup InstanceWriters(g) : g \in Targets(t)} ELSE {})

(* threads that wait for one another and for nothing else *)
Deadlock ==
    \E S \in SUBSET ThreadIds :
        /\ S # {}
        /\ \A t \in S : ~CanGo(t) /\ Blockers(t) \ {t} \subseteq S

Go(t, c) == th' = [th EXCEPT ![t] = c]

Returns(t, g, out) == Go(t, [th[t] EXCEPT !.at = "return", !.g = g, !.left = {}, !.out = out])

(* instances made or about to be made *)
Creators ==
    {u \in ThreadIds : /\ th[u].op \in {"CreateGame", "GetOrCreateDefault"}
                       /\ th[u].at \in {"await", "create"}}

RoomForGame == Cardinality(DOMAIN inst) + Cardinality(Creators) < MaxGames

(* a caller calls an operation of the manager *)
Call(ops) ==
    /\ \E t \in ThreadIds, op \in ops, id \in GameIDs :
          /\ th[t] = Idle
          /\ op \in {"CreateGame", "GetOrCreateDefault"} => RoomForGame
          /\ op \notin {"GetGame", "RemoveGame"} => id = defaultID
          /\ Go(t, [Idle EXCEPT !.op = op, !.at = "await", !.id = id])
    /\ UNCHANGED <<games, inst, mmu, gmu, single>>

CallManager == Call(ManagerOps)

(* the caller is done with what it was given *)
Return ==
    /\ \E t \in ThreadIds : th[t].at = "return" /\ Go(t, Idle)
    /\ UNCHANGED <<games, inst, mmu, gmu, single>>

(* the caller invokes an operation on the instance it was given *)
Use ==
    /\ \E t \in ThreadIds, op \in InstanceOps :
          /\ th[t].at = "return"
          /\ th[t].g # NoGame
          /\ Go(t, [Idle EXCEPT !.op = op, !.at = "await", !.g = th[t].g,
                                !.id = th[t].id])
    /\ UNCHANGED <<games, inst, mmu, gmu, single>>

Register(id) ==
    /\ inst' = Put(inst, NewInstance, NewGame(id))
    /\ gmu' = Put(gmu, NewInstance, Free)
    /\ games' = Put(games, id, NewInstance)

(* Manager.CreateGame *)
CreateGame ==
    /\ \E t \in ThreadIds :
          /\ th[t].op = "CreateGame" /\ th[t].at = "await"
          /\ MCanLock
          /\ Register(NewGameID)
          /\ Returns(t, NewInstance, Ok)
    /\ UNCHANGED <<mmu, single>>

(* Manager.GetGame *)
GetGame ==
    /\ \E t \in ThreadIds :
          /\ th[t].op = "GetGame" /\ th[t].at = "await"
          /\ MCanRLock
          /\ IF th[t].id \in DOMAIN games
             THEN Returns(t, games[th[t].id], Ok)
             ELSE Returns(t, NoGame, ErrGameNotFound)
    /\ UNCHANGED <<games, inst, mmu, gmu, single>>

(* Manager.GetOrCreateDefault: the look under RLock *)
GetOrCreateDefault ==
    /\ \E t \in ThreadIds :
          /\ th[t].op = "GetOrCreateDefault" /\ th[t].at = "await"
          /\ MCanRLock
          /\ IF defaultID \in DOMAIN games
             THEN Returns(t, games[defaultID], Ok)
             ELSE Go(t, [th[t] EXCEPT !.at = "create"])
    /\ UNCHANGED <<games, inst, mmu, gmu, single>>

(* a GetOrCreateDefault that does not look again under the write lock *)
GetOrCreateDefaultUnchecked ==
    /\ \E t \in ThreadIds :
          /\ th[t].at = "create"
          /\ MCanLock
          /\ Register(defaultID)
          /\ Returns(t, NewInstance, Ok)
    /\ UNCHANGED <<mmu, single>>

(* Manager.GetOrCreateDefault: under the write lock *)
GetOrCreateDefaultLocked ==
    /\ \E t \in ThreadIds :
          /\ th[t].at = "create"
          /\ MCanLock
          /\ IF defaultID \in DOMAIN games
             THEN /\ Returns(t, games[defaultID], Ok)
                  /\ UNCHANGED <<games, inst, gmu>>
             ELSE /\ Register(defaultID)
                  /\ Returns(t, NewInstance, Ok)
    /\ UNCHANGED <<mmu, single>>

(* Manager.RemoveGame: takes m.mu and looks the game up *)
RemoveGame ==
    /\ \E t \in ThreadIds :
          /\ th[t].op = "RemoveGame" /\ th[t].at = "await"
          /\ MCanLock
          /\ IF th[t].id \in DOMAIN games
             THEN /\ mmu' = [mmu EXCEPT !.w = {t}]
                  /\ Go(t, [th[t] EXCEPT !.at = "stop", !.g = games[th[t].id],
                                         !.left = {games[th[t].id]}])
             ELSE /\ Returns(t, NoGame, ErrGameNotFound)
                  /\ UNCHANGED mmu
    /\ UNCHANGED <<games, inst, gmu, single>>

(* Manager.RemoveGame: game.Stop() *)
RemoveGameStops ==
    /\ \E t \in ThreadIds :
          /\ th[t].op = "RemoveGame" /\ th[t].at = "stop"
          /\ GCanLock(th[t].g)
          /\ inst' = [inst EXCEPT ![th[t].g].running = FALSE]
          /\ Go(t, [th[t] EXCEPT !.at = "delete", !.left = {}])
    /\ UNCHANGED <<games, mmu, gmu, single>>

(* Manager.RemoveGame: delete(m.games, gameID) and the deferred Unlock *)
RemoveGameDeletes ==
    /\ \E t \in ThreadIds :
          /\ th[t].op = "RemoveGame" /\ th[t].at = "delete"
          /\ games' = [id \in DOMAIN games \ {th[t].id} |-> games[id]]
          /\ mmu' = [mmu EXCEPT !.w = {}]
          /\ Returns(t, NoGame, Ok)
    /\ UNCHANGED <<inst, gmu, single>>

(* Manager.Shutdown: takes m.mu *)
Shutdown ==
    /\ \E t \in ThreadIds :
          /\ th[t].op = "Shutdown" /\ th[t].at = "await"
          /\ MCanLock
          /\ mmu' = [mmu EXCEPT !.w = {t}]
          /\ Go(t, [th[t] EXCEPT !.at = "stop",
                                 !.left = {games[id] : id \in DOMAIN games}])
    /\ UNCHANGED <<games, inst, gmu, single>>

(* Manager.Shutdown: game.Stop() on the next game of the map *)
ShutdownStops ==
    /\ \E t \in ThreadIds :
          /\ th[t].op = "Shutdown" /\ th[t].at = "stop"
          /\ \E g \in th[t].left :
                /\ GCanLock(g)
                /\ inst' = [inst EXCEPT ![g].running = FALSE]
                /\ Go(t, [th[t] EXCEPT !.left = th[t].left \ {g}])
    /\ UNCHANGED <<games, mmu, gmu, single>>

(* Manager.Shutdown: m.games = make(..) and the deferred Unlock *)
ShutdownClears ==
    /\ \E t \in ThreadIds :
          /\ th[t].op = "Shutdown" /\ th[t].at = "stop" /\ th[t].left = {}
          /\ games' = Empty
          /\ mmu' = [mmu EXCEPT !.w = {}]
          /\ Returns(t, NoGame, Ok)
    /\ UNCHANGED <<inst, gmu, single>>

(* Manager.GetStats: takes m.mu.RLock *)
GetStats ==
    /\ \E t \in ThreadIds :
          /\ th[t].op = "GetStats" /\ th[t].at = "await"
          /\ MCanRLock
          /\ mmu' = [mmu EXCEPT !.r = mmu.r \cup {t}]
          /\ Go(t, [th[t] EXCEPT !.at = "read",
                                 !.left = {games[id] : id \in DOMAIN games}])
    /\ UNCHANGED <<games, inst, gmu, single>>

(* Manager.GetStats: game.GetState() on the next game of the map *)
GetStatsReads ==
    /\ \E t \in ThreadIds :
          /\ th[t].op = "GetStats" /\ th[t].at = "read"
          /\ \E g \in th[t].left :
                /\ GCanRLock(g)
                /\ Go(t, [th[t] EXCEPT !.left = th[t].left \ {g}])
    /\ UNCHANGED <<games, inst, mmu, gmu, single>>

(* Manager.GetStats: the deferred RUnlock *)
GetStatsReturns ==
    /\ \E t \in ThreadIds :
          /\ th[t].op = "GetStats" /\ th[t].at = "read" /\ th[t].left = {}
          /\ mmu' = [mmu EXCEPT !.r = mmu.r \ {t}]
          /\ Returns(t, NoGame, Ok)
    /\ UNCHANGED <<games, inst, gmu, single>>

(* an operation on an instance takes g.mu: RLock for GetState, Lock for the *)
(* others                                                                   *)
InstanceOpLocks ==
    /\ \E t \in ThreadIds :
          /\ th[t].op \in InstanceOps /\ th[t].at = "await"
          /\ IF th[t].op = "GetState"
             THEN /\ GCanRLock(th[t].g)
                  /\ gmu' = [gmu EXCEPT ![th[t].g].r = gmu[th[t].g].r \cup {t}]
             ELSE /\ GCanLock(th[t].g)
                  /\ gmu' = [gmu EXCEPT ![th[t].g].w = {t}]
          /\ Go(t, [th[t] EXCEPT !.at = "body"])
    /\ UNCHANGED <<games, inst, mmu, single>>

(* the operation does its work and releases g.mu; Start and Stop set the   *)
(* running flag                                                             *)
InstanceOpUnlocks ==
    /\ \E t \in ThreadIds :
          /\ th[t].op \in InstanceOps /\ th[t].at = "body"
          /\ RegistryMode(t) = "r" => MCanRLock
          /\ inst' = [inst EXCEPT ![th[t].g].running =
                         IF th[t].op = "Start" THEN TRUE
                         ELSE IF th[t].op = "Stop" THEN FALSE
                         ELSE inst[th[t].g].running]
          /\ gmu' = [gmu EXCEPT ![th[t].g] =
                        [w |-> gmu[th[t].g].w \ {t}, r |-> gmu[th[t].g].r \ {t}]]
          /\ Returns(t, NoGame, Ok)
    /\ UNCHANGED <<games, mmu, single>>

(* the tick loop of a running instance calls Update, which takes g.mu *)
TickLocks ==
    /\ \E g \in DOMAIN inst :
          /\ inst[g].running
          /\ GCanLock(g)
          /\ gmu' = [gmu EXCEPT ![g].w = {TickLoop}]
    /\ UNCHANGED <<games, inst, mmu, th, single>>

(* Update returns *)
TickUnlocks ==
    /\ \E g \in DOMAIN inst :
          /\ gmu[g].w = {TickLoop}
          /\ gmu' = [gmu EXCEPT ![g].w = {}]
    /\ UNCHANGED <<games, inst, mmu, th, single>>

----------------------------------------------------------------------------
(* The instance NewGame returns, and its behaviours *)

Init ==
    /\ towers = Empty
    /\ enemies = Empty
    /\ projectiles = Empty
    /\ state = NewState
    /\ running = FALSE
    /\ pc = 0
    /\ dt = 0
    /\ currentWave = 0
    /\ remainingInWave = 0
    /\ waveDue = FALSE
    /\ spawnDue = TRUE
    /\ ran = <<>>
    /\ slain = {}
    /\ calls = Empty
    /\ returned = Empty
    /\ before = NoCalls
    /\ snap = NoSnapshot
    /\ tickers = Empty
    /\ gticker = NoTicker
    /\ loops = Empty
    /\ starting = 0
    /\ launched = 0
    /\ games = Empty
    /\ inst = Empty
    /\ mmu = Free
    /\ gmu = Empty
    /\ th = [t \in ThreadIds |-> Idle]
    /\ idx = NewWorld
    /\ pure = NoCall

Tick ==
    \/ StartLoop
    \/ LoopBegins
    \/ LoopWakes
    \/ UpdateBegin
    \/ UpdateGameOver
    \/ WaveUpdate
    \/ MovementUpdate
    \/ CombatUpdate
    \/ ProjectileUpdate
    \/ RewardUpdate
    \/ LifecycleUpdate

Clock ==
    \/ WaveTimerExpires
    \/ SpawnTimerExpires
    \/ CooldownExpires

Place ==
    /\ \E towerType \in TowerTypes, pos \in Spots : AddTower(towerType, pos)
    /\ UNCHANGED <<clients, aside>>

(* the placements of a game with one firing position *)
PlaceOne ==
    /\ \E towerType \in {"basic", "splash"} : AddTower(towerType, Pos(5, 0))
    /\ UNCHANGED <<clients, aside>>

(* the bytes SaveState returns on the game NewGame has just built *)
InitialSnapshot == Marshal(Snapshot(Empty, Empty, Empty, NewState))

(* LoadFromState with the bytes SaveState has just returned, with the bytes *)
(* of a new game, and with bytes that are no snapshot                       *)
Snapshots == {MarshalState, InitialSnapshot}

Load == \E data \in Snapshots \cup {Garbage} : LoadFromState(data)

(* ticks and tower placements on a started game *)
Next ==
    \/ Tick
    \/ Clock
    \/ PlaceOne
    \/ Start
    \/ Reset

Spec == Init /\ [][Next]_vars

(* snapshots taken and loaded on a game that is started and reset; its     *)
(* towers are left to fire once                                             *)
NextPersist ==
    \/ Tick
    \/ WaveTimerExpires
    \/ SpawnTimerExpires
    \/ PlaceOne
    \/ Start
    \/ Reset
    \/ SaveState
    \/ Load

SpecPersist == Init /\ [][NextPersist]_vars

(* every placement on a game whose towers are left to fire once *)
NextPlace ==
    \/ StartLoop
    \/ LoopBegins
    \/ LoopWakes
    \/ UpdateBegin
    \/ WaveUpdate
    \/ MovementUpdate
    \/ CombatUpdate
    \/ ProjectileUpdate
    \/ RewardUpdate
    \/ LifecycleUpdate
    \/ WaveTimerExpires
    \/ Place
    \/ Start
    \/ Reset

SpecPlace == Init /\ [][NextPlace]_vars

(* calls issued together on a game that ticks, with towers placed before *)
NextCalls ==
    \/ StartLoop
    \/ LoopBegins
    \/ LoopWakes
    \/ UpdateBegin
    \/ WaveUpdate
    \/ MovementUpdate
    \/ CombatUpdate
    \/ ProjectileUpdate
    \/ RewardUpdate
    \/ LifecycleUpdate
    \/ Start
    \/ calls = Empty /\ PlaceOne
    \/ calls = Empty /\ Reset
    \/ Issue
    \/ ServeSome
    \/ Collect

SpecCalls == Init /\ [][NextCalls]_vars

(* snapshots read from a game that ticks, is reset and gets towers *)
NextRead ==
    \/ StartLoop
    \/ LoopBegins
    \/ LoopWakes
    \/ UpdateBegin
    \/ WaveUpdate
    \/ MovementUpdate
    \/ CombatUpdate
    \/ ProjectileUpdate
    \/ RewardUpdate
    \/ LifecycleUpdate
    \/ WaveTimerExpires
    \/ PlaceOne
    \/ Start
    \/ Reset
    \/ Load
    \/ ReadState
    \/ ReadReturns

SpecRead == Init /\ [][NextRead]_vars

(* a game that is started and stopped again and again while it ticks *)
NextLoop ==
    \/ StartLoop
    \/ LoopBegins
    \/ LoopWakes
    \/ UpdateBegin
    \/ WaveUpdate
    \/ MovementUpdate
    \/ CombatUpdate
    \/ ProjectileUpdate
    \/ RewardUpdate
    \/ LifecycleUpdate
    \/ WaveTimerExpires
    \/ Start
    \/ Stop

SpecLoop == Init /\ [][NextLoop]_vars

(* no tick-loop goroutine and no Start call is left from an earlier Start *)
NoLoopLeft == loops = Empty /\ starting = 0 /\ launched = 0

(* a game that is lost, stopped, reset and loaded, and started again only   *)
(* when the tick loop of its last Start is gone; it gets towers only once   *)
(* it is lost                                                               *)
NextOver ==
    \/ Tick
    \/ WaveTimerExpires
    \/ SpawnTimerExpires
    \/ state.GameOver /\ PlaceOne
    \/ NoLoopLeft /\ Start
    \/ Stop
    \/ Reset
    \/ Load

SpecOver == Init /\ [][NextOver]_vars

(* callers of every operation of the manager, who go on to operate on the  *)
(* instance they were given, and instances that tick once started          *)
NextManager ==
    \/ CallManager
    \/ Return
    \/ Use
    \/ CreateGame
    \/ GetGame
    \/ GetOrCreateDefault
    \/ GetOrCreateDefaultLocked
    \/ RemoveGame
    \/ RemoveGameStops
    \/ RemoveGameDeletes
    \/ Shutdown
    \/ ShutdownStops
    \/ ShutdownClears
    \/ GetStats
    \/ GetStatsReads
    \/ GetStatsReturns
    \/ InstanceOpLocks
    \/ InstanceOpUnlocks
    \/ TickLocks
    \/ TickUnlocks

SpecManager == Init /\ [][NextManager]_vars

(* every sequence of operations on a World *)
NextWorld ==
    \/ AddSomeEntity
    \/ RemoveEntity
    \/ EntityDies
    \/ CleanupDeadEntities
    \/ Clear

SpecWorld == Init /\ [][NextWorld]_vars

(* the factory called with every composition *)
NextFactory ==
    \/ CallCreateEnemiesForWave

SpecFactory == Init /\ [][NextFactory]_vars

(* projectiles that hit, with every damage, radius and neighbour *)
NextHit ==
    \/ CallProjectileHit

SpecHit == Init /\ [][NextHit]_vars

(* the movement of single enemies, tried before the game starts, and the   *)
(* waves of a game without towers                                          *)
NextMove ==
    \/ CallMoveEnemy
    \/ pure = NoCall /\ Start
    \/ StartLoop
    \/ LoopBegins
    \/ LoopWakes
    \/ UpdateBegin
    \/ WaveUpdate
    \/ MovementUpdate
    \/ CombatUpdate
    \/ ProjectileUpdate
    \/ RewardUpdate
    \/ LifecycleUpdate
    \/ WaveTimerExpires
    \/ SpawnTimerExpires

SpecMove == Init /\ [][NextMove]_vars

(* a started game that keeps ticking: the goroutine of Start is scheduled   *)
(* and gets a tick every 16 ms, each stage of an Update returns, and the    *)
(* wall clock passes nextEnemySpawn and lastWaveTime + waveInterval         *)
NextTicking ==
    \/ Tick
    \/ Clock
    \/ PlaceOne
    \/ Start

SpecTicking ==
    /\ Init /\ [][NextTicking]_vars
    /\ WF_vars(Tick)
    /\ SF_vars(WaveTimerExpires)
    /\ SF_vars(SpawnTimerExpires)

(* a game without towers whose configuration may have a gap for any wave:  *)
(* the construction of a wave that is due succeeds or fails                *)
NextGap ==
    \/ StartLoop
    \/ LoopBegins
    \/ LoopWakes
    \/ UpdateBegin
    \/ WaveUpdate
    \/ WaveUpdateGap
    \/ MovementUpdate
    \/ CombatUpdate
    \/ ProjectileUpdate
    \/ RewardUpdate
    \/ LifecycleUpdate
    \/ WaveTimerExpires
    \/ SpawnTimerExpires
    \/ Start

SpecGap == Init /\ [][NextGap]_vars

(* callers of GetOrCreateDefault and of the operations that evict nothing *)
NextDefault ==
    \/ Call({"GetOrCreateDefault", "CreateGame", "GetGame", "GetStats"})
    \/ Return
    \/ Use
    \/ CreateGame
    \/ GetGame
    \/ GetOrCreateDefault
    \/ GetOrCreateDefaultLocked
    \/ GetStats
    \/ GetStatsReads
    \/ GetStatsReturns
    \/ InstanceOpLocks
    \/ InstanceOpUnlocks
    \/ TickLocks
    \/ TickUnlocks

SpecDefault == Init /\ [][NextDefault]_vars

----------------------------------------------------------------------------
(* Properties *)

(* the enemies the lifecycle stage is to count: alive, at the last waypoint *)
Arrived ==
    {id \in DOMAIN enemies :
        enemies[id].alive /\ enemies[id].pathIndex >= Len(cfg.Map.Path) - 1}

(* C1: every enemy whose hp drops to 0 or below by damage in the projectile *)
(* stage of a tick is rewarded exactly once in the reward stage of that     *)
(* tick, while it is still in the World: gold and score rise by exactly the *)
(* rewards of those enemies.                                                *)
C1_RewardedOnceInTick ==
    [][ran' = Append(ran, "reward") =>
          /\ slain \subseteq DOMAIN enemies
          /\ state'.Gold = state.Gold
                + SumOver(slain, [id \in slain |-> enemies[id].goldReward])
          /\ state'.Score = state.Score
                + SumOver(slain, [id \in slain |-> enemies[id].scoreReward])]_vars

(* C2: every enemy that is alive at the last waypoint when the lifecycle    *)
(* stage runs costs exactly one life in that stage and is gone from the     *)
(* World when the stage ends, so no later tick can count it again.          *)
C2_OneLifePerArrival ==
    [][ran' = Append(ran, "lifecycle") =>
          /\ state'.Lives = state.Lives - Cardinality(Arrived)
          /\ Arrived \cap DOMAIN enemies' = {}
          /\ \A id \in DOMAIN enemies' :
                enemies'[id].alive /\ enemies'[id].pathIndex < Len(cfg.Map.Path) - 1]_vars

(* C2 witness: the movement stage of this tick has put two enemies on the   *)
(* last waypoint, and the lifecycle stage is the next to run                *)
C2_TwoArriveTogether ==
    /\ Len(ran) = 5
    /\ Cardinality(Arrived) = 2

(* the order the stages are to run in *)
PipelineOrder ==
    <<"wave", "movement", "combat", "projectile", "reward", "lifecycle">>

(* C3: a tick runs the six stages one at a time in the order wave,          *)
(* movement, combat, projectile, reward, lifecycle, none skipped or         *)
(* repeated; an entity leaves the World during a tick only in the last,     *)
(* lifecycle stage, after the reward stage has run, and no dead entity      *)
(* outlives the tick.                                                       *)
C3_PipelineInOrder ==
    [][pc # 0 =>
          /\ Len(ran') = Len(ran) + 1
          /\ \A i \in 1..Len(ran') : ran'[i] = PipelineOrder[i]
          /\ pc' = 0 <=> ran' = PipelineOrder
          /\ (\/ DOMAIN enemies \ DOMAIN enemies' # {}
              \/ DOMAIN towers \ DOMAIN towers' # {}
              \/ DOMAIN projectiles \ DOMAIN projectiles' # {})
                => ran' = PipelineOrder
          /\ pc' = 0 =>
                /\ \A id \in DOMAIN enemies' : enemies'[id].alive
                /\ \A id \in DOMAIN towers' : towers'[id].alive
                /\ \A id \in DOMAIN projectiles' : projectiles'[id].alive]_vars

(* C3 witness: the reward stage has run and an enemy killed in this tick is *)
(* still in the World, waiting for the cleanup                              *)
C3_DeadAwaitsCleanup ==
    /\ ran = SubSeq(PipelineOrder, 1, 5)
    /\ \E id \in DOMAIN enemies : ~enemies[id].alive /\ id \in slain

(* C4: once game-over is true it stays true across ticks, AddTower,         *)
(* GetState, SaveState, Start, Stop and a LoadFromState of bytes that do    *)
(* not decode or of a snapshot with gameOver true; only Reset and a         *)
(* LoadFromState of a snapshot with gameOver false clear it.                *)
C4_GameOverUntilResetOrLoad ==
    [][state.GameOver /\ ~state'.GameOver =>
          \/ Reset
          \/ \E data \in Snapshots : ~data.gameOver /\ LoadFromState(data)]_vars

(* C4 as stated: only Reset clears game-over *)
C4_GameOverUntilReset ==
    [][state.GameOver /\ ~state'.GameOver => Reset]_vars

(* C4 witness: the game was lost, and stopped after that; its tick loop has *)
(* returned                                                                 *)
C4_StoppedAfterGameOver ==
    /\ state.GameOver
    /\ ~running
    /\ state.Lives = 0
    /\ NoLoopLeft

(* the squared distance to a path segment is below the squared minimum *)
NearerThanMinDistance(pos) ==
    \E i \in 0..(Len(cfg.Map.Path) - 2) :
        LET d == distanceToSegment(pos, cfg.Map.Path[i + 1], cfg.Map.Path[i + 2])
        IN  d.num < cfg.Placement.MinDistanceFromPath
                      * cfg.Placement.MinDistanceFromPath * d.den

(* an alive tower nearer than the minimum spacing *)
NearerThanMinSpacing(pos) ==
    \E id \in DOMAIN towers :
        /\ towers[id].alive
        /\ DistSq(pos, towers[id].pos)
              < cfg.Placement.MinTowerSpacing * cfg.Placement.MinTowerSpacing

AtTowerCap ==
    Cardinality({id \in DOMAIN towers : towers[id].alive}) >= cfg.Placement.MaxTowers

Known(towerType) == towerType \in DOMAIN cfg.Towers

(* the error is the one that goes with the reason of the failure *)
ErrorMatches(towerType, pos) ==
    LET err == AddTowerResult(towerType, pos)
    IN  /\ err = ErrUnknownTower <=> ~Known(towerType)
        /\ err = ErrNotEnoughGold
              <=> Known(towerType) /\ state.Gold < cfg.Towers[towerType].Cost
        /\ err = ErrInvalidPlacement
              => \/ AtTowerCap
                 \/ NearerThanMinDistance(pos)
                 \/ NearerThanMinSpacing(pos)

(* C5: an AddTower that fails returns the error of its reason (not enough   *)
(* gold for gold < cost, invalid placement for a broken placement rule) and *)
(* leaves every field of the game as it was.                                *)
C5_FailedAddTowerChangesNothing ==
    [][\A towerType \in TowerTypes, pos \in Spots :
          (/\ AddTower(towerType, pos)
           /\ UNCHANGED <<clients, aside>>
           /\ AddTowerResult(towerType, pos) # Ok)
              => UNCHANGED vars /\ ErrorMatches(towerType, pos)]_vars

(* C5 witness: with one basic tower placed, one call fails for each reason *)
C5_EachFailure ==
    /\ pc = 0
    /\ state.Gold = 50
    /\ Cardinality(DOMAIN towers) = 1
    /\ AddTowerResult("laser", Pos(5, 3)) = ErrUnknownTower
    /\ AddTowerResult("splash", Pos(5, 3)) = ErrNotEnoughGold
    /\ AddTowerResult("basic", Pos(0, 1)) = ErrInvalidPlacement

(* C6: for a known and affordable archetype AddTower is rejected as an      *)
(* invalid placement whenever the point is nearer than minDistanceFromPath  *)
(* to some path segment, and the path check passes only if the point is at  *)
(* least that far from every segment.                                       *)
C6_PathDistanceRule ==
    \A towerType \in TowerTypes, pos \in Spots :
        (pc = 0 /\ Known(towerType) /\ state.Gold >= cfg.Towers[towerType].Cost)
            => /\ NearerThanMinDistance(pos)
                    => AddTowerResult(towerType, pos) = ErrInvalidPlacement
               /\ ~TooCloseToPath(pos) => ~NearerThanMinDistance(pos)

(* C7: the alive towers never outnumber the configured maximum, any two of  *)
(* them are at least minTowerSpacing apart, and an affordable placement     *)
(* that would break either rule is rejected as an invalid placement.        *)
C7_CapAndSpacing ==
    /\ Cardinality({id \in DOMAIN towers : towers[id].alive}) <= cfg.Placement.MaxTowers
    /\ \A a, b \in DOMAIN towers :
          (a # b /\ towers[a].alive /\ towers[b].alive)
              => DistSq(towers[a].pos, towers[b].pos)
                    >= cfg.Placement.MinTowerSpacing * cfg.Placement.MinTowerSpacing
    /\ \A towerType \in TowerTypes, pos \in Spots :
          (/\ Known(towerType)
           /\ state.Gold >= cfg.Towers[towerType].Cost
           /\ AtTowerCap \/ NearerThanMinSpacing(pos))
              => AddTowerResult(towerType, pos) = ErrInvalidPlacement

(* C7 witness: the field is full of towers and gold is left for one more,   *)
(* on a spot far from the path and from both towers                         *)
C7_FullWithGoldLeft ==
    /\ pc = 0
    /\ AtTowerCap
    /\ \E towerType \in TowerTypes, pos \in Spots :
          /\ Known(towerType)
          /\ state.Gold >= cfg.Towers[towerType].Cost
          /\ ~NearerThanMinDistance(pos)
          /\ ~NearerThanMinSpacing(pos)

(* the calls issued together: which were admitted, what they cost *)
AllReturned == calls # Empty /\ DOMAIN returned = DOMAIN calls

Admitted == {c \in DOMAIN returned : returned[c].err = Ok}

CostOf(c) == cfg.Towers[calls[c].towerType].Cost

TotalCost(S) == SumOver(S, [c \in S |-> CostOf(c)])

(* the room the cap left when the calls were issued *)
Room ==
    LET existing == Cardinality({id \in DOMAIN before.towers : before.towers[id].alive})
    IN  IF existing >= cfg.Placement.MaxTowers THEN 0
        ELSE cfg.Placement.MaxTowers - existing

(* each call, taken alone when the calls were issued, is affordable and on  *)
(* a valid spot                                                             *)
EachCallFine ==
    \A c \in DOMAIN calls :
        /\ Known(calls[c].towerType)
        /\ CostOf(c) <= before.gold
        /\ ~NearerThanMinDistance(calls[c].pos)
        /\ \A id \in DOMAIN before.towers :
              DistSq(calls[c].pos, before.towers[id].pos)
                  >= cfg.Placement.MinTowerSpacing * cfg.Placement.MinTowerSpacing

(* the calls do not get in each other's way: their spots are pairwise at    *)
(* least minTowerSpacing apart, and the gold pays for any of them that the  *)
(* cap has room for                                                         *)
CallsCompatible ==
    /\ \A c, d \in DOMAIN calls :
          c # d => DistSq(calls[c].pos, calls[d].pos)
                      >= cfg.Placement.MinTowerSpacing * cfg.Placement.MinTowerSpacing
    /\ \A S \in SUBSET DOMAIN calls :
          Cardinality(S) <= Room => TotalCost(S) <= before.gold

CallsOutcome ==
    /\ Cardinality(Admitted) = Min(Cardinality(DOMAIN calls), Room)
    /\ \A c, d \in Admitted : c # d => returned[c].id # returned[d].id
    /\ \A c \in Admitted :
          returned[c].id \in DOMAIN towers \ DOMAIN before.towers
    /\ Cardinality(DOMAIN towers) = Cardinality(DOMAIN before.towers) + Cardinality(Admitted)
    /\ state.Gold = before.gold - TotalCost(Admitted)

(* C8: of N concurrent AddTower calls, each affordable and validly placed   *)
(* on its own, whose spots are pairwise at least minTowerSpacing apart and  *)
(* whose costs the gold covers for as many of them as the cap has room for, *)
(* exactly min(N, K - existing) succeed under every interleaving with each  *)
(* other and with ticks; the admitted towers have distinct identifiers and  *)
(* gold has gone down by exactly the sum of their costs.                    *)
C8_CompatibleCallsFillTheCap ==
    (AllReturned /\ EachCallFine /\ CallsCompatible) => CallsOutcome

(* C8 as stated: for calls that are each affordable and validly placed on   *)
(* their own                                                                *)
C8_CallsFillTheCap ==
    (AllReturned /\ EachCallFine) => CallsOutcome

(* C8 witness: three compatible calls have returned, and the cap had room   *)
(* for two of them                                                          *)
C8_ThreeCallsRoomForTwo ==
    /\ AllReturned
    /\ EachCallFine
    /\ CallsCompatible
    /\ Cardinality(DOMAIN calls) = 3
    /\ Room = 2
    /\ Cardinality(Admitted) = 2

(* C9: a successful AddTower adds exactly one tower, of the archetype and   *)
(* at the point asked for, and takes exactly the cost of the archetype from *)
(* gold; gold equal to the cost is enough, so AddTower reports a lack of    *)
(* gold only when gold is below the cost.                                   *)
C9_OneTowerForItsCost ==
    [][\A towerType \in TowerTypes, pos \in Spots :
          /\ AddTowerResult(towerType, pos) = ErrNotEnoughGold
                => state.Gold < cfg.Towers[towerType].Cost
          /\ (AddTower(towerType, pos) /\ AddTowerResult(towerType, pos) = Ok)
                => /\ state'.Gold = state.Gold - cfg.Towers[towerType].Cost
                   /\ state.Gold >= cfg.Towers[towerType].Cost
                   /\ Cardinality(DOMAIN towers' \ DOMAIN towers) = 1
                   /\ \A id \in DOMAIN towers : towers'[id] = towers[id]
                   /\ \A id \in DOMAIN towers' \ DOMAIN towers :
                         /\ towers'[id].towerType = towerType
                         /\ towers'[id].pos = pos
                         /\ towers'[id].alive]_vars

(* C9 witness: from gold 100, two basic towers of cost 50 are placed, gold  *)
(* is 0 and a third basic tower is refused for lack of gold                 *)
C9_TwoPlacedThirdRefused ==
    /\ pc = 0
    /\ cfg.Game.StartingGold = 100
    /\ cfg.Towers["basic"].Cost = 50
    /\ state.Gold = 0
    /\ Cardinality(DOMAIN towers) = 2
    /\ \A id \in DOMAIN towers : towers[id].towerType = "basic"
    /\ \A pos \in Spots : AddTowerResult("basic", pos) = ErrNotEnoughGold

(* C10: LoadFromState with the bytes SaveState returns in a state gives a   *)
(* game whose GetState snapshot equals the snapshot of that state: the same *)
(* towers, enemies and projectiles with their identifiers, kinds, positions *)
(* and stats, and the same wave, gold, lives, score and gameOver.           *)
C10_SaveLoadRoundTrip ==
    [][LoadFromState(MarshalState) => GetState' = GetState]_vars

(* C10 witness: a snapshot with a splash tower, an enemy and a projectile   *)
(* has been loaded: the enemy carries no reward and the tower waits for its *)
(* cooldown                                                                 *)
C10_LoadedBusyGame ==
    /\ pc = 0
    /\ \E id \in DOMAIN towers :
          towers[id].splashRadius > 0 /\ ~towers[id].canShoot
    /\ \E id \in DOMAIN enemies : enemies[id].goldReward = 0
    /\ projectiles # Empty

(* C11: LoadFromState given bytes that do not decode returns an error and   *)
(* leaves the World, gold, lives, score, wave, gameOver and the wave stage  *)
(* exactly as they were.                                                     *)
C11_BadLoadChangesNothing ==
    [][LoadFromState(Garbage) =>
          /\ LoadFromStateResult(Garbage) # Ok
          /\ world' = world
          /\ state' = state
          /\ waveSys' = waveSys]_vars

(* a game with towers, enemies and a pending drip, where a load can be tried *)
C11_BadLoadOfBusyGame ==
    /\ pc = 0
    /\ towers # Empty
    /\ enemies # Empty
    /\ remainingInWave > 0
    /\ ENABLED LoadFromState(Garbage)

(* C12: a successful LoadFromState leaves the wave stage idle at the loaded *)
(* wave number: nothing is pending in the drip queue, so no enemy of the    *)
(* wave that was running before the load is released into the loaded World. *)
C12_LoadRestartsWaveIdle ==
    [][\A data \in Snapshots :
          LoadFromState(data) /\ LoadFromStateResult(data) = Ok =>
              /\ currentWave' = data.wave
              /\ remainingInWave' = 0]_vars

(* C13: Reset, from any state, leaves an empty World, the starting gold and *)
(* lives, wave 0, score 0, gameOver false, and a wave stage with counter 0, *)
(* nothing pending and a restarted inter-wave timer; from such a wave stage *)
(* the wave that starts next is wave 1, its first enemy at wave-1 strength. *)
C13_ResetGivesFreshGame ==
    [][/\ Reset =>
            /\ towers' = Empty /\ enemies' = Empty /\ projectiles' = Empty
            /\ state' = [ Wave |-> 0, Gold |-> cfg.Game.StartingGold,
                          Lives |-> cfg.Game.StartingLives, Score |-> 0,
                          GameOver |-> FALSE ]
            /\ currentWave' = 0
            /\ remainingInWave' = 0
            /\ ~waveDue'
       /\ WaveUpdate /\ currentWave = 0 /\ remainingInWave = 0 /\ enemies' # enemies =>
            /\ currentWave' = 1
            /\ \A id \in DOMAIN enemies' \ DOMAIN enemies :
                  enemies'[id].maxHp = ScaleEnemyHP(GetEnemyConfig(enemies'[id].enemyType).HP, 1)]_vars

(* a lost game with enemies on the path and a pending drip, about to be reset *)
C13_ResetOfLostGame ==
    /\ pc = 0
    /\ state.GameOver
    /\ enemies # Empty
    /\ remainingInWave > 0
    /\ currentWave > 0
    /\ ENABLED Reset

(* C14: GetState and SaveState never observe a partially executed tick or   *)
(* command: every snapshot handed out is the snapshot of the game at a      *)
(* moment when no tick and no command is in progress, so it equals the      *)
(* state entirely before or entirely after each operation it overlaps.      *)
C14_SnapshotOfQuietGame ==
    [][snap' # snap /\ snap' # NoSnapshot =>
          /\ pc = 0 /\ pc' = 0
          /\ snap' = Snapshot(towers, enemies, projectiles, state)
          /\ UNCHANGED <<world, state>>]_vars

(* a snapshot in the caller's hands while a later tick has moved the enemies *)
C14_SnapshotOverlapsTick ==
    /\ snap # NoSnapshot
    /\ pc = 3
    /\ snap.Enemies # {}
    /\ snap # GetState

(* C15: Stop is idempotent and halts future ticks: a Stop of a stopped game *)
(* changes nothing, Stop never changes the World, the game state or the     *)
(* wave stage, and while the game is stopped (Stop has returned and Start   *)
(* has not been called since) no pipeline pass begins.                      *)
C15_StopHaltsTicks ==
    [][/\ Stop /\ ~running => UNCHANGED vars
       /\ Stop => ~running' /\ UNCHANGED <<world, state, waveSys>>
       /\ pc = 0 /\ pc' = 1 => running]_vars

(* C16: Start is idempotent: a Start of a running game changes nothing, and *)
(* across Start, Stop, Start sequences at most one tick-loop goroutine at a *)
(* time has found the game running and is calling, or about to call, Update *)
C16_OneLoopDrivesUpdate ==
    [][/\ Start /\ running => UNCHANGED vars
       /\ Cardinality({l \in DOMAIN loops' : loops'[l].at = "checked"}) <= 1]_vars

(* C17: under concurrent first calls of GetOrCreateDefault exactly one       *)
(* default instance is made and registered, and every caller is given that   *)
(* instance.                                                                 *)
C17_OneDefaultInstance ==
    /\ Cardinality({i \in DOMAIN inst : inst[i].id = defaultID}) <= 1
    /\ \A t \in ThreadIds :
          th[t].op = "GetOrCreateDefault" /\ th[t].at = "return" =>
              /\ defaultID \in DOMAIN games
              /\ th[t].g = games[defaultID]
              /\ inst[th[t].g].id = defaultID

(* two first calls have both missed the default game under RLock; one has   *)
(* made it and returned, the other is about to take the write lock          *)
C17_TwoFirstCallsRace ==
    \E t, u \in ThreadIds :
        /\ th[t].op = "GetOrCreateDefault" /\ th[t].at = "return"
        /\ th[u].op = "GetOrCreateDefault" /\ th[u].at = "create"

(* C18: RemoveGame of a registered id stops the instance before it evicts   *)
(* it, so no instance leaves the registry while it is marked running;       *)
(* RemoveGame of an unknown id returns NotFound and leaves the registry as  *)
(* it was.                                                                  *)
C18_StoppedBeforeEvicted ==
    [][/\ RemoveGameDeletes =>
             \A id \in DOMAIN games \ DOMAIN games' : ~inst[games[id]].running
       /\ \A t \in ThreadIds :
             th[t].op = "RemoveGame" /\ th[t].at = "await" /\ th'[t].at # "await" =>
                 IF th[t].id \in DOMAIN games
                 THEN th'[t].at = "stop" /\ games' = games
                 ELSE /\ th'[t].at = "return"
                      /\ th'[t].out = ErrGameNotFound
                      /\ games' = games]_vars

(* the threads that hold the lock of some instance *)
HoldsInstanceLock(t) == \E g \in DOMAIN gmu : t \in gmu[g].w \cup gmu[g].r

HoldsRegistryLock(t) == t \in mmu.w \cup mmu.r

(* C19: no interleaving of manager operations with instance operations      *)
(* deadlocks: no set of threads wait for one another, no thread that holds  *)
(* an instance lock waits for the registry lock, and a caller that was      *)
(* given an instance by a lookup holds no registry lock when it invokes an  *)
(* operation on it.                                                         *)
C19_NoDeadlock ==
    /\ ~Deadlock
    /\ \A t \in ThreadIds :
          /\ HoldsInstanceLock(t) => RegistryMode(t) = "-"
          /\ th[t].at = "return" => ~HoldsRegistryLock(t)
          /\ th[t].op \in InstanceOps => ~HoldsRegistryLock(t)

(* RemoveGame holds the registry lock and waits for the lock of an instance *)
(* that is in the middle of an operation, while another caller waits for    *)
(* the registry lock                                                        *)
C19_WaitingInBothLocks ==
    \E t, u \in ThreadIds :
        /\ th[t].op = "RemoveGame" /\ th[t].at = "stop" /\ ~CanGo(t)
        /\ RegistryMode(u) # "-" /\ ~CanGo(u)

(* the kind indices that hold identifier id *)
IndicesOf(id) == {type \in EntityTypes : id \in DOMAIN idx[type]}

(* C20: after any sequence of AddEntity, RemoveEntity, CleanupDeadEntities  *)
(* and Clear, adding under an identifier already present included, an       *)
(* entity is in the identifier index if and only if it is in exactly the    *)
(* kind index of its kind.                                                  *)
C20_IndicesAgree ==
    \A id \in EntityIds :
        IF id \in DOMAIN idx.entities
        THEN IndicesOf(id) = {idx.entities[id].type}
        ELSE IndicesOf(id) = {}

(* the projectiles in flight whose target is missing from the enemy index   *)
(* es or not alive there                                                    *)
Lost(ps, es) == {p \in GetAlive(ps) : ps[p].target \notin GetAlive(es)}

Released == DOMAIN enemies' \ DOMAIN enemies

(* C23: the wave stage releases exactly the batch CreateEnemiesForWave      *)
(* built: the step that starts wave n admits the first enemy of the batch   *)
(* and leaves the rest of the batch, its size less one, pending; every      *)
(* later step of the stage admits at most one enemy, of a kind of the       *)
(* batch, and takes one off the pending count; so the stage is Idle again   *)
(* when as many enemies as the batch holds have been admitted.              *)
C23_WaveReleasesItsBatch ==
    [][Stage("wave") /\ pc' # pc =>
          IF currentWave' # currentWave
          THEN /\ currentWave' = currentWave + 1
               /\ ~CreateEnemiesForWaveFails(currentWave') =>
                     /\ Cardinality(Released) = 1
                     /\ \A id \in Released :
                           enemies'[id].enemyType = WaveKinds(currentWave')[1]
                     /\ remainingInWave' = Len(WaveKinds(currentWave')) - 1
          ELSE /\ Cardinality(Released) <= 1
               /\ remainingInWave' = remainingInWave - Cardinality(Released)
               /\ \A id \in Released :
                     \E i \in 1..Len(WaveKinds(currentWave)) :
                        enemies'[id].enemyType = WaveKinds(currentWave)[i]]_vars

(* the positions of kind `kind` in a batch *)
PlacesOf(batch, kind) == {i \in 1..Len(batch) : batch[i] = kind}

(* all of kind a come before all of kind b *)
Precede(batch, a, b) == \A i \in PlacesOf(batch, a), j \in PlacesOf(batch, b) : i < j

C25_NextWaveWhenIdleAndDue ==
    [][currentWave' > currentWave =>
          /\ Stage("wave")
          /\ remainingInWave = 0
          /\ waveDue
          /\ currentWave' = currentWave + 1
          /\ ~waveDue'
          /\ pc' = pc + 1]_vars

(* C25 witness: the second wave has just started, in the wave stage of a    *)
(* tick, and has enemies pending                                            *)
C25_SecondWaveStarted ==
    /\ ran = <<"wave">>
    /\ currentWave = 2
    /\ remainingInWave > 0
    /\ ~waveDue
    /\ \E id \in DOMAIN enemies : enemies[id].pathIndex = 0 /\ enemies[id].pos = startPos

C27_TowersStayPut ==
    [][/\ \A id \in DOMAIN towers \cap DOMAIN towers' :
             /\ towers'[id].pos = towers[id].pos
             /\ towers[id].alive => towers'[id].alive
       /\ ~(DOMAIN towers \subseteq DOMAIN towers') => Reset \/ Load
       /\ pc # 0 => DOMAIN towers' = DOMAIN towers]_vars

(* C27 witness: a tick has ended in which the tower placed at (5, 0) has    *)
(* been through all six stages after firing                                 *)
C27_TowerAfterFiring ==
    /\ pc = 0
    /\ Len(ran) = 6
    /\ \E id \in DOMAIN towers :
          towers[id].alive /\ ~towers[id].canShoot /\ towers[id].pos = Pos(5, 0)
    /\ \E id \in DOMAIN enemies : enemies[id].hp < enemies[id].maxHp

(* C28: in the steps of a tick gold and score do not go down and lives do   *)
(* not go up; an AddTower call does not raise gold and leaves score and     *)
(* lives alone; and a step that changes gold is the reward stage, an        *)
(* AddTower, a Reset or a LoadFromState, one that changes score is the      *)
(* reward stage, a Reset or a LoadFromState, one that changes lives is the  *)
(* lifecycle stage, a Reset or a LoadFromState.                             *)
C28_GoldScoreLivesFrame ==
    [][/\ pc # 0 \/ pc' # 0 =>
             /\ state'.Gold >= state.Gold
             /\ state'.Score >= state.Score
             /\ state'.Lives <= state.Lives
       /\ Place =>
             /\ state'.Gold <= state.Gold
             /\ state'.Score = state.Score
             /\ state'.Lives = state.Lives
       /\ state'.Gold # state.Gold => Stage("reward") \/ Place \/ Reset \/ Load
       /\ state'.Score # state.Score => Stage("reward") \/ Reset \/ Load
       /\ state'.Lives # state.Lives => Stage("lifecycle") \/ Reset \/ Load]_vars

(* C28 witness: a tower has been paid for and an enemy has cost a life, in  *)
(* a game whose tick is in its reward stage                                 *)
C28_PaidAndLostALife ==
    /\ Stage("reward")
    /\ state.Gold = cfg.Game.StartingGold - cfg.Towers["basic"].Cost
    /\ state.Lives = cfg.Game.StartingLives - 1
    /\ towers # Empty
    /\ \E id \in DOMAIN enemies : ~enemies[id].alive /\ enemies[id].hp = 0

(* hp after a damage of d: TakeDamage stops at 0 *)
HpLess(hp, d) == IF hp - d <= 0 THEN 0 ELSE hp - d

(* C29: when a projectile with damage d and splash radius r hits, the       *)
(* target takes d; with r > 0 every other alive enemy at distance <= r of   *)
(* the target's position takes max(d / 2, 1), with integer division;        *)
(* enemies farther than r and dead enemies are left as they are and the     *)
(* target takes no splash on top of d; with r = 0 only the target is        *)
(* damaged.                                                                 *)
C29_SplashHalvesDamage ==
    pure.fn = "ProjectileHit" =>
        LET proj == pure.arg.projectiles[Shot]
            was == pure.arg.enemies
            now == pure.out.enemies
            splashDamage == IF proj.damage \div 2 >= 1 THEN proj.damage \div 2 ELSE 1
            near == /\ was[Other].alive
                    /\ proj.splashRadius > 0
                    /\ DistSq(was[Other].pos, was[Primary].pos)
                          <= proj.splashRadius * proj.splashRadius
        IN  /\ ~pure.out.projectiles[Shot].alive
            /\ now[Primary].hp = HpLess(was[Primary].hp, proj.damage)
            /\ now[Primary].alive = (now[Primary].hp > 0)
            /\ near => /\ now[Other].hp = HpLess(was[Other].hp, splashDamage)
                       /\ now[Other].alive = (now[Other].hp > 0)
            /\ ~near => now[Other] = was[Other]

(* C29 witness: a hit with damage 3 and radius 2 on a target with an alive  *)
(* neighbour at distance 2, which has lost 1 hp                             *)
C29_NeighbourTakesHalf ==
    /\ pure.fn = "ProjectileHit"
    /\ pure.arg.projectiles[Shot].damage = 3
    /\ pure.arg.projectiles[Shot].splashRadius = 2
    /\ pure.arg.enemies[Other].alive
    /\ pure.arg.enemies[Other].pos = Pos(4, 0)
    /\ pure.out.enemies[Other].hp = pure.arg.enemies[Other].hp - 1
    /\ pure.out.enemies[Primary].hp = pure.arg.enemies[Primary].hp - 3

(* C30: the path index of every enemy is between 0 and len(path) - 1; from  *)
(* one state to the next it does not go down and goes up by at most 1, and  *)
(* only in the movement stage, which runs once per tick; and the movement   *)
(* of an enemy whose path index is len(path) - 1 leaves the enemy as it is. *)
C30_PathIndexAdvancesByOne ==
    [][/\ \A id \in DOMAIN enemies :
             0 <= enemies[id].pathIndex /\ enemies[id].pathIndex <= PathLen - 1
       /\ \A id \in DOMAIN enemies \cap DOMAIN enemies' :
             /\ enemies'[id].pathIndex >= enemies[id].pathIndex
             /\ enemies'[id].pathIndex <= enemies[id].pathIndex + 1
             /\ enemies'[id].pathIndex # enemies[id].pathIndex =>
                   Stage("movement") /\ pc' = pc + 1
       /\ pure'.fn = "MoveEnemy" =>
             /\ pure'.out.pathIndex >= pure'.arg.enemy.pathIndex
             /\ pure'.out.pathIndex <= pure'.arg.enemy.pathIndex + 1
             /\ pure'.out.pathIndex <= PathLen - 1
             /\ pure'.arg.enemy.pathIndex = PathLen - 1 =>
                   pure'.out = pure'.arg.enemy]_vars

(* C30 witness: the movement has been applied to an alive enemy at the last *)
(* path index                                                               *)
C30_EnemyAtLastIndex ==
    /\ pure.fn = "MoveEnemy"
    /\ pure.arg.enemy.alive
    /\ pure.arg.enemy.pathIndex = PathLen - 1
    /\ pure.arg.enemy.pos = PathAt(PathLen - 1)
    /\ pure.arg.dt = MaxDtFrames

(* the projectiles a step has added to the World *)
Fired == DOMAIN projectiles' \ DOMAIN projectiles

(* the projectiles a step has added at the position of tower id *)
FiredBy(id) == {p \in Fired : projectiles'[p].pos = towers[id].pos}

(* C31: in the combat stage every new projectile comes from an alive tower  *)
(* whose cooldown had elapsed, aims at an alive enemy within the tower's    *)
(* range that no alive enemy is nearer than, and carries the tower's        *)
(* damage and splash radius; a tower fires at most one, its cooldown is     *)
(* reset when it has fired and the tower is untouched when it has not; no   *)
(* other stage adds a projectile.                                           *)
C31_TowerFiresAtNearest ==
    [][/\ Fired # {} => Stage("combat")
       /\ Stage("combat") /\ pc' # pc =>
             /\ \A p \in Fired : \E id \in DOMAIN towers :
                   LET t == towers[id]
                       shot == projectiles'[p]
                   IN  /\ t.alive /\ t.canShoot
                       /\ shot.pos = t.pos
                       /\ shot.alive
                       /\ shot.damage = t.damage
                       /\ shot.splashRadius = t.splashRadius
                       /\ shot.target \in GetAlive(enemies)
                       /\ DistSq(enemies[shot.target].pos, t.pos) < t.range * t.range
                       /\ \A o \in GetAlive(enemies) :
                             DistSq(enemies[o].pos, t.pos)
                                >= DistSq(enemies[shot.target].pos, t.pos)
             /\ \A id \in DOMAIN towers :
                   /\ Cardinality(FiredBy(id)) <= 1
                   /\ FiredBy(id) # {} => ~towers'[id].canShoot
                   /\ FiredBy(id) = {} => towers'[id] = towers[id]
             /\ \A p \in DOMAIN projectiles : projectiles'[p] = projectiles[p]]_vars

(* C31 witness: the combat stage is over, the tower has fired and its       *)
(* cooldown runs, and of two alive enemies in its range the projectile      *)
(* aims at the nearer                                                       *)
C31_FiredAtNearerOfTwo ==
    /\ Stage("projectile")
    /\ \E id \in DOMAIN towers, p \in DOMAIN projectiles, far \in GetAlive(enemies) :
          /\ ~towers[id].canShoot
          /\ projectiles[p].pos = towers[id].pos
          /\ projectiles[p].target \in GetAlive(enemies)
          /\ DistSq(enemies[far].pos, towers[id].pos) < towers[id].range * towers[id].range
          /\ DistSq(enemies[far].pos, towers[id].pos)
                > DistSq(enemies[projectiles[p].target].pos, towers[id].pos)

(* a step of the wave stage in which a wave was due and none was built *)
ConstructionFails ==
    /\ Stage("wave") /\ pc' # pc
    /\ remainingInWave = 0 /\ waveDue
    /\ enemies' = enemies

(* C32: when the construction of a wave fails in a tick, no enemy is added  *)
(* and nothing is pending, the tick goes on to its next stage, the game     *)
(* stays running with its tick loops, and the inter-wave interval starts    *)
(* again; whenever a wave stage runs with nothing pending and the interval  *)
(* over, a construction is attempted.                                       *)
C32_FailedWaveLeavesStageIdle ==
    [][/\ ConstructionFails =>
             /\ remainingInWave' = 0
             /\ pc' = pc + 1
             /\ running' = running
             /\ loops' = loops
             /\ ~state'.GameOver
             /\ ~waveDue'
       /\ Stage("wave") /\ pc' # pc /\ remainingInWave = 0 /\ waveDue =>
             currentWave' = currentWave + 1
       /\ Stage("wave") /\ pc' # pc /\ ~(remainingInWave = 0 /\ waveDue) =>
             currentWave' = currentWave]_vars

(* C32 witness: a tick has run all six stages after the construction of the *)
(* first wave failed in it, the interval is over again and a tick loop is   *)
(* about to call Update                                                     *)
C32_RetryAfterFailedWave ==
    /\ pc = 0
    /\ ran = systems
    /\ currentWave = 1
    /\ state.Wave = 0
    /\ enemies = Empty
    /\ remainingInWave = 0
    /\ waveDue
    /\ running
    /\ Checked # {}

(* a step of the wave stage that starts a wave: nothing was pending and an *)
(* enemy is admitted                                                       *)
WaveStarts ==
    /\ Stage("wave") /\ pc' # pc
    /\ remainingInWave = 0
    /\ DOMAIN enemies' # DOMAIN enemies

(* C34: the wave counter goes up by one in a wave stage that starts a wave  *)
(* and stays as it is in every other wave stage, one whose construction     *)
(* fails included.                                                          *)
C34_CounterCountsStartedWaves ==
    [][Stage("wave") /\ pc' # pc =>
          currentWave' = currentWave + (IF WaveStarts THEN 1 ELSE 0)]_vars

(* C33: in a game that keeps ticking, a wave with enemies pending releases *)
(* them all and the stage is Idle again, and after each wave the next one  *)
(* starts, unless the game is over first.                                  *)
C33_WaveStageNeverStalls ==
    /\ (remainingInWave > 0) ~> (remainingInWave = 0 \/ state.GameOver)
    /\ \A n \in 0..(MaxWave - 1) :
          (running /\ currentWave = n) ~> (currentWave > n \/ state.GameOver)

(* C33 witness: the second wave has started after the first released all *)
(* its pending enemies, and has released all of its own, in a game that  *)
(* is not over                                                           *)
C33_BothWavesDrained ==
    /\ pc = 0
    /\ running
    /\ currentWave = 2
    /\ remainingInWave = 0
    /\ ~state.GameOver
    /\ state.Lives > 0

(* the entities of the World whose alive flag is false *)
DeadEntities ==
    {id \in DOMAIN towers : ~towers[id].alive}
       \cup {id \in DOMAIN enemies : ~enemies[id].alive}
       \cup {id \in DOMAIN projectiles : ~projectiles[id].alive}

(* C35: whenever g.mu is free the World holds no entity whose alive flag is *)
(* false, and the snapshot GetState builds lists every entity of the World. *)
C35_NoDeadEntityWhenUnlocked ==
    pc = 0 =>
       /\ DeadEntities = {}
       /\ Cardinality(GetState.Towers) = Cardinality(DOMAIN towers)
       /\ Cardinality(GetState.Enemies) = Cardinality(DOMAIN enemies)
       /\ Cardinality(GetState.Projectiles) = Cardinality(DOMAIN projectiles)

(* C35 witness: g.mu is free after a tick whose lifecycle stage took out an *)
(* enemy that reached the end, with a tower and another enemy in the World  *)
C35_UnlockedAfterCleanup ==
    /\ pc = 0
    /\ ran = systems
    /\ state.Lives = cfg.Game.StartingLives - 1
    /\ DOMAIN towers # {}
    /\ DOMAIN enemies # {}

(* the enemies damage has killed, and the living ones at the last waypoint *)
Killed == {id \in DOMAIN enemies : ~enemies[id].alive}
AliveAtEnd == {id \in DOMAIN enemies :
              enemies[id].alive /\ enemies[id].pathIndex >= PathLen - 1}

(* the enemies a step takes out of the World *)
Leaving == DOMAIN enemies \ DOMAIN enemies'

(* C36: an enemy leaves the World in the lifecycle stage, either killed by *)
(* damage or alive at the last waypoint, or when the World is cleared with *)
(* the lock free; the lifecycle stage takes one life for each that arrived *)
(* alive and none for the killed, pays nothing, and the reward stage takes *)
(* no life and pays only for enemies that have not arrived alive.          *)
C36_RewardOrLifeNeverBoth ==
    [][/\ Leaving # {} =>
             \/ Stage("lifecycle") /\ Leaving = Killed \cup AliveAtEnd
             \/ pc = 0 /\ pc' = 0
       /\ Stage("lifecycle") /\ pc' # pc =>
             /\ state'.Lives = state.Lives - Cardinality(AliveAtEnd)
             /\ state'.Gold = state.Gold
             /\ state'.Score = state.Score
       /\ Stage("reward") /\ pc' # pc =>
             /\ state'.Lives = state.Lives
             /\ state'.Gold # state.Gold \/ state'.Score # state.Score =>
                   \E id \in DOMAIN enemies :
                      enemies[id].alive /\ ~enemies'[id].alive
             /\ \A id \in DOMAIN enemies :
                   enemies'[id].alive /\ enemies'[id].pathIndex >= PathLen - 1 =>
                      enemies'[id] = enemies[id]]_vars

(* C36 witness: the lifecycle stage is about to run on an enemy that a      *)
(* projectile killed in the tick that moved it to the last waypoint, in a   *)
(* game that has lost no life                                               *)
C36_KilledAtLastWaypoint ==
    /\ Stage("lifecycle")
    /\ state.Lives = cfg.Game.StartingLives
    /\ \E id \in Killed :
          /\ enemies[id].pathIndex >= PathLen - 1
          /\ enemies[id].hp <= 0
          /\ id \in slain

(* C37: in a game that is started, ticked, given towers and reset, gameOver *)
(* is true exactly when lives <= 0.                                         *)
C37_GameOverIffNoLives ==
    state.GameOver <=> state.Lives <= 0

(* C37 witness: the last life has just been lost in a lifecycle stage *)
C37_LastLifeLost ==
    /\ pc = 0
    /\ ran = systems
    /\ state.Lives <= 0
    /\ state.GameOver

(* C38: the gold of a game that is started, ticked, given towers and reset *)
(* is never negative.                                                      *)
C38_GoldNeverNegative ==
    state.Gold >= 0

(* C38 witness: a tower has been paid for, and a second one that could be *)
(* placed costs more than the gold that is left                           *)
C38_SecondTowerTooDear ==
    /\ pc = 0
    /\ DOMAIN towers # {}
    /\ \E towerType \in TowerTypes, pos \in Spots :
          /\ isValidPlacement(towers, pos)
          /\ state.Gold < GetTowerConfig(towerType).Cost
          /\ AddTowerResult(towerType, pos) = ErrNotEnoughGold

(* C39: the wave of the game state is never above the counter of the wave  *)
(* stage and at most one below it; an Update that runs the stages sets it  *)
(* to the counter as it stands then and the stages leave it; a step with   *)
(* the lock free that changes either of them, Reset or LoadFromState,      *)
(* leaves them equal.                                                      *)
C39_WaveMirrorsCounter ==
    [][/\ state'.Wave <= currentWave'
       /\ currentWave' - state'.Wave <= 1
       /\ pc = 0 /\ pc' # 0 => state'.Wave = currentWave
       /\ pc # 0 => state'.Wave = state.Wave
       /\ pc = 0 /\ pc' = 0
             /\ (currentWave' # currentWave \/ state'.Wave # state.Wave) =>
             state'.Wave = currentWave']_vars

(* C39 witness: the lock is free after the tick that started the second *)
(* wave, and the game state still shows the first                       *)
C39_StateOneWaveBehind ==
    /\ pc = 0
    /\ ran = systems
    /\ currentWave = 2
    /\ state.Wave = 1

====
